---- MODULE Spec2Model ----
(***************************************************************************)
(* Model of the mDNS / unicast-DNS Discovery Proxy (RFC 8766).             *)
(*                                                                         *)
(* Strings are sequences of one-character strings, so that ends_with,     *)
(* starts_with, contains, split and to_lowercase work on characters the   *)
(* way the Rust string functions do (in particular NOT on label           *)
(* boundaries).  A hickory Name is a record of its labels and its fqdn    *)
(* flag; from_utf8 / to_utf8 convert between the two representations.     *)
(***************************************************************************)
EXTENDS Integers, Sequences, FiniteSets, TLC

\* ------------------------------------------------------------------------
\* Bounds of the model
\* ------------------------------------------------------------------------
\* number of requests / direct resolver calls in one behaviour
MaxRequests == 2
\* number of events the mDNS daemon delivers to one browse
MaxEvents == 2
\* last instant of the monotonic clock
MaxTime == 3

\* ------------------------------------------------------------------------
\* Characters and string literals
\* ------------------------------------------------------------------------
Dot == <<".">>

L_local == <<"l","o","c","a","l">>
L_printer == <<"p","r","i","n","t","e","r">>
L_nas == <<"n","a","s">>
L_web == <<"w","e","b">>
L_http == <<"_","h","t","t","p">>
L_tcp == <<"_","t","c","p">>
L_udp == <<"_","u","d","p">>
L_b == <<"b">>
L_db == <<"d","b">>
L_lb == <<"l","b">>
L_dns_sd == <<"_","d","n","s","-","s","d">>
L_dns_llq == <<"_","d","n","s","-","l","l","q">>
L_dns_llq_tls == <<"_","d","n","s","-","l","l","q","-","t","l","s">>
L_dns_push_tls == <<"_","d","n","s","-","p","u","s","h","-","t","l","s">>
L_dns_update == <<"_","d","n","s","-","u","p","d","a","t","e">>
L_dns_update_tls == <<"_","d","n","s","-","u","p","d","a","t","e","-","t","l","s">>
L_discovery_proxy == <<"d","i","s","c","o","v","e","r","y","-","p","r","o","x","y">>
L_hostmaster == <<"h","o","s","t","m","a","s","t","e","r">>

\* "local." and the two suffixes should_handle_domain looks for
STR_local == L_local \o Dot
STR_dot_local_dot == Dot \o L_local \o Dot
STR_dot_local == Dot \o L_local
STR_dot_tcp_dot == Dot \o L_tcp \o Dot
STR_dot_udp_dot == Dot \o L_udp \o Dot

\* config.rs: default_discovery_domain() = "mdns.home.arpa."
default_discovery_domain == <<"m","d","n","s",".","h","o","m","e",".","a","r","p","a",".">>

\* ------------------------------------------------------------------------
\* Rust string functions
\* ------------------------------------------------------------------------
UpperToLower ==
  [c \in {"A","B","C","D","E","F","G","H","I","J","K","L","M","N","O","P","Q",
          "R","S","T","U","V","W","X","Y","Z"} |->
     CASE c = "A" -> "a" [] c = "B" -> "b" [] c = "C" -> "c" [] c = "D" -> "d"
       [] c = "E" -> "e" [] c = "F" -> "f" [] c = "G" -> "g" [] c = "H" -> "h"
       [] c = "I" -> "i" [] c = "J" -> "j" [] c = "K" -> "k" [] c = "L" -> "l"
       [] c = "M" -> "m" [] c = "N" -> "n" [] c = "O" -> "o" [] c = "P" -> "p"
       [] c = "Q" -> "q" [] c = "R" -> "r" [] c = "S" -> "s" [] c = "T" -> "t"
       [] c = "U" -> "u" [] c = "V" -> "v" [] c = "W" -> "w" [] c = "X" -> "x"
       [] c = "Y" -> "y" [] c = "Z" -> "z"]

\* str::to_lowercase
to_lowercase(s) ==
  [i \in 1..Len(s) |-> IF s[i] \in DOMAIN UpperToLower THEN UpperToLower[s[i]] ELSE s[i]]

\* str::ends_with
ends_with(s, suf) ==
  /\ Len(suf) <= Len(s)
  /\ SubSeq(s, Len(s) - Len(suf) + 1, Len(s)) = suf

\* str::starts_with
starts_with(s, pre) ==
  /\ Len(pre) <= Len(s)
  /\ SubSeq(s, 1, Len(pre)) = pre

\* str::contains
contains(s, pat) ==
  \E i \in 1..(Len(s) - Len(pat) + 1) : SubSeq(s, i, i + Len(pat) - 1) = pat

\* str::trim_end_matches('.')
RECURSIVE trim_end_dots(_)
trim_end_dots(s) ==
  IF Len(s) > 0 /\ s[Len(s)] = "." THEN trim_end_dots(SubSeq(s, 1, Len(s) - 1)) ELSE s

\* str::split('.'): the pieces between the dots; a trailing dot yields a
\* trailing empty piece ("a.b." -> ["a", "b", ""])
RECURSIVE split_dots(_, _, _)
split_dots(s, i, cur) ==
  IF i > Len(s) THEN <<cur>>
  ELSE IF s[i] = "." THEN <<cur>> \o split_dots(s, i + 1, <<>>)
  ELSE split_dots(s, i + 1, Append(cur, s[i]))

split(s) == split_dots(s, 1, <<>>)

\* [&str]::join(".")
RECURSIVE join(_)
join(parts) ==
  IF Len(parts) = 0 THEN <<>>
  ELSE IF Len(parts) = 1 THEN parts[1]
  ELSE parts[1] \o Dot \o join(Tail(parts))

\* ------------------------------------------------------------------------
\* hickory_proto::rr::Name
\* ------------------------------------------------------------------------
\* Name::from_utf8: split into labels; a trailing dot makes the name fully
\* qualified; an empty label (as in ".local." or "a..b") or a whitespace
\* character is a parse error.
Name_from_utf8(s) ==
  IF s = Dot THEN [ok |-> TRUE, labels |-> <<>>, fqdn |-> TRUE]
  ELSE
    LET parts == split(s)
        fq == Len(s) > 0 /\ s[Len(s)] = "."
        labels == IF fq THEN SubSeq(parts, 1, Len(parts) - 1) ELSE parts
        bad == \/ Len(s) = 0
               \/ \E i \in 1..Len(labels) : labels[i] = <<>>
               \/ \E i \in 1..Len(s) : s[i] = " "
    IN IF bad THEN [ok |-> FALSE, labels |-> <<>>, fqdn |-> FALSE]
       ELSE [ok |-> TRUE, labels |-> labels, fqdn |-> fq]

\* Name::to_utf8
Name_to_utf8(n) ==
  IF Len(n.labels) = 0 THEN (IF n.fqdn THEN Dot ELSE <<>>)
  ELSE join(n.labels) \o (IF n.fqdn THEN Dot ELSE <<>>)

\* the Name a literal parses to (literals of the model are well formed)
NameOf(s) == [labels |-> Name_from_utf8(s).labels, fqdn |-> Name_from_utf8(s).fqdn]

\* Name::num_labels
num_labels(n) == Len(n.labels)

\* Name == Name: label-wise, ignoring ASCII case
Name_eq(a, b) ==
  /\ Len(a.labels) = Len(b.labels)
  /\ \A i \in 1..Len(a.labels) : to_lowercase(a.labels[i]) = to_lowercase(b.labels[i])

\* Name::zone_of: self is a suffix (label-wise, ignoring case) of name
zone_of(zone, name) ==
  /\ Len(zone.labels) <= Len(name.labels)
  /\ LET off == Len(name.labels) - Len(zone.labels)
     IN \A i \in 1..Len(zone.labels) :
          to_lowercase(zone.labels[i]) = to_lowercase(name.labels[off + i])

\* LowerName: the name of a parsed question, lower-cased by the server library
LowerName(n) == [labels |-> [i \in 1..Len(n.labels) |-> to_lowercase(n.labels[i])], fqdn |-> n.fqdn]

\* ------------------------------------------------------------------------
\* Resource records
\* ------------------------------------------------------------------------
RT_A == "A"
RT_AAAA == "AAAA"
RT_PTR == "PTR"
RT_SRV == "SRV"
RT_TXT == "TXT"
RT_SOA == "SOA"
RT_NS == "NS"
RT_DS == "DS"
RT_MX == "MX"

\* Record::from_rdata(name, ttl, rdata); the record type is the rdata's
Record_from_rdata(name, ttl, rdata) ==
  [name |-> name, ttl |-> ttl, rtype |-> rdata.kind, rdata |-> rdata]

RData_A(addr) == [kind |-> RT_A, addr |-> addr]
RData_AAAA(addr) == [kind |-> RT_AAAA, addr |-> addr]
RData_PTR(target) == [kind |-> RT_PTR, target |-> target]
RData_NS(target) == [kind |-> RT_NS, target |-> target]
RData_SRV(priority, weight, port, target) ==
  [kind |-> RT_SRV, priority |-> priority, weight |-> weight, port |-> port, target |-> target]
RData_TXT(txt) == [kind |-> RT_TXT, txt |-> txt]
RData_SOA(mname, rname, serial, refresh, retry, expire, minimum) ==
  [kind |-> RT_SOA, mname |-> mname, rname |-> rname, serial |-> serial,
   refresh |-> refresh, retry |-> retry, expire |-> expire, minimum |-> minimum]

\* the names embedded in a record's rdata
EmbeddedNames(r) ==
  CASE r.rdata.kind \in {RT_PTR, RT_NS, RT_SRV} -> {r.rdata.target}
    [] r.rdata.kind = RT_SOA -> {r.rdata.mname, r.rdata.rname}
    [] OTHER -> {}

\* ------------------------------------------------------------------------
\* dns_handler/utils.rs
\* ------------------------------------------------------------------------
\* should_handle_domain(name): the name ends in ".local." / ".local" or
\* contains "._tcp." / "._udp."
should_handle_domain(name) ==
  LET name_lower == to_lowercase(name)
  IN \/ ends_with(name_lower, STR_dot_local_dot)
     \/ ends_with(name_lower, STR_dot_local)
     \/ contains(name_lower, STR_dot_tcp_dot)
     \/ contains(name_lower, STR_dot_udp_dot)

RC_NoError == "NoError"
RC_FormErr == "FormErr"
RC_ServFail == "ServFail"
RC_NXDomain == "NXDomain"

\* build_response_from_records answering NOERROR for a failed lookup too
build_response_from_records_always_noerror(result) ==
  IF result.ok /\ result.records # <<>>
  THEN [code |-> RC_NoError, some |-> TRUE, records |-> result.records]
  ELSE [code |-> RC_NoError, some |-> FALSE, records |-> <<>>]

\* build_response_from_records answering NXDOMAIN for a clean empty result
build_response_from_records_empty_nxdomain(result) ==
  IF result.ok
  THEN IF result.records = <<>>
       THEN [code |-> RC_NXDomain, some |-> FALSE, records |-> <<>>]
       ELSE [code |-> RC_NoError, some |-> TRUE, records |-> result.records]
  ELSE [code |-> RC_ServFail, some |-> FALSE, records |-> <<>>]

\* build_response_from_records(records): (response code, Option<records>)
build_response_from_records(result) ==
  IF result.ok
  THEN IF result.records = <<>>
       THEN [code |-> RC_NoError, some |-> FALSE, records |-> <<>>]
       ELSE [code |-> RC_NoError, some |-> TRUE, records |-> result.records]
  ELSE [code |-> RC_ServFail, some |-> FALSE, records |-> <<>>]

\* ------------------------------------------------------------------------
\* dns_handler/admin_records.rs
\* ------------------------------------------------------------------------
MAX_ADMIN_TTL == 10

\* is_domain_enumeration_query
is_domain_enumeration_query(name, record_type) ==
  IF record_type # RT_PTR THEN FALSE
  ELSE LET name_str == to_lowercase(Name_to_utf8(name))
       IN \/ starts_with(name_str, L_b \o Dot \o L_dns_sd \o Dot \o L_udp \o Dot)
          \/ starts_with(name_str, L_db \o Dot \o L_dns_sd \o Dot \o L_udp \o Dot)
          \/ starts_with(name_str, L_lb \o Dot \o L_dns_sd \o Dot \o L_udp \o Dot)

\* the seven administrative SRV prefixes
AdminSrvPrefixes ==
  { L_dns_llq \o Dot \o L_udp \o Dot,
    L_dns_llq \o Dot \o L_tcp \o Dot,
    L_dns_llq_tls \o Dot \o L_tcp \o Dot,
    L_dns_push_tls \o Dot \o L_tcp \o Dot,
    L_dns_update \o Dot \o L_udp \o Dot,
    L_dns_update \o Dot \o L_tcp \o Dot,
    L_dns_update_tls \o Dot \o L_tcp \o Dot }

\* is_admin_srv_query without its record type test
is_admin_srv_query_any_type(name, record_type) ==
  \E p \in AdminSrvPrefixes : starts_with(to_lowercase(Name_to_utf8(name)), p)

\* is_admin_srv_query
is_admin_srv_query(name, record_type) ==
  IF record_type # RT_SRV THEN FALSE
  ELSE LET name_str == to_lowercase(Name_to_utf8(name))
       IN \E p \in AdminSrvPrefixes : starts_with(name_str, p)

\* is_negative_admin_srv_query
is_negative_admin_srv_query(name) ==
  LET name_str == to_lowercase(Name_to_utf8(name))
  IN \E p \in AdminSrvPrefixes : starts_with(name_str, p)

\* is_delegation_query_below_apex
is_delegation_query_below_apex(name, record_type, zone_apex) ==
  IF record_type \in {RT_SOA, RT_NS, RT_DS}
  THEN num_labels(name) > num_labels(zone_apex) /\ zone_of(zone_apex, name)
  ELSE FALSE

\* is_zone_apex_query
is_zone_apex_query(name, zone_apex) == Name_eq(name, zone_apex)

SOA_SERIAL == 0
SOA_REFRESH == 7200
SOA_RETRY == 3600
SOA_EXPIRE == 86400
SOA_MINIMUM == 10

\* generate_soa_record
generate_soa_record(name) ==
  LET mname == NameOf(L_discovery_proxy \o Dot \o STR_local)
      rname == NameOf(L_hostmaster \o Dot \o STR_local)
  IN Record_from_rdata(name, MAX_ADMIN_TTL,
       RData_SOA(mname, rname, SOA_SERIAL, SOA_REFRESH, SOA_RETRY, SOA_EXPIRE, SOA_MINIMUM))

\* generate_ns_record
generate_ns_record(name) ==
  Record_from_rdata(name, MAX_ADMIN_TTL, RData_NS(NameOf(L_discovery_proxy \o Dot \o STR_local)))

\* generate_domain_enumeration_records
generate_domain_enumeration_records(name, zone_apex) ==
  << Record_from_rdata(name, MAX_ADMIN_TTL, RData_PTR(zone_apex)) >>

\* ------------------------------------------------------------------------
\* Record suppression (admin_records.rs, RFC 8766 section 5.5.2)
\* ------------------------------------------------------------------------
\* an IpAddr is [v |-> 4, o |-> 4 octets] or [v |-> 6, o |-> 16 octets]
IPv4(a, b, c, d) == [v |-> 4, o |-> <<a, b, c, d>>]
IPv6(a, b, last) == [v |-> 6, o |-> <<a, b, 0, 0, 0, 0, 0, 0, 0, 0, 0, 0, 0, 0, 0, last>>]
NoClient == [v |-> 0, o |-> <<>>]

\* RecordSuppressionConfig::default(): enabled, client address unknown
RecordSuppressionConfig_default == [enabled |-> TRUE, client_ip |-> NoClient]

\* is_ipv4_link_local: 169.254/16
is_ipv4_link_local(addr) == addr.o[1] = 169 /\ addr.o[2] = 254

\* is_ipv6_ula: (octets[0] & 0xfe) == 0xfc
is_ipv6_ula(addr) == (addr.o[1] \div 2) * 2 = 252

\* is_ipv6_link_local: octets[0] == 0xfe && (octets[1] & 0xc0) == 0x80
is_ipv6_link_local(addr) == addr.o[1] = 254 /\ (addr.o[2] \div 64) * 64 = 128

\* Ipv4Addr::is_loopback (127/8), Ipv6Addr::is_loopback (::1)
is_loopback(addr) ==
  IF addr.v = 4 THEN addr.o[1] = 127
  ELSE addr.o = <<0, 0, 0, 0, 0, 0, 0, 0, 0, 0, 0, 0, 0, 0, 0, 1>>

\* Ipv4Addr::is_private: 10/8, 172.16/12, 192.168/16
is_private(addr) ==
  \/ addr.o[1] = 10
  \/ addr.o[1] = 172 /\ addr.o[2] >= 16 /\ addr.o[2] <= 31
  \/ addr.o[1] = 192 /\ addr.o[2] = 168

\* is_same_link taking every client in a private range as local
is_same_link_any_private_client(client_ip, target_addr) ==
  IF is_loopback(client_ip) THEN TRUE
  ELSE IF client_ip.v = 4 /\ target_addr.v = 4
       THEN is_private(client_ip)
  ELSE IF client_ip.v = 6 /\ target_addr.v = 6
       THEN is_ipv6_link_local(client_ip) /\ is_ipv6_link_local(target_addr)
  ELSE FALSE

\* is_same_link(client_ip, target_addr)
is_same_link(client_ip, target_addr) ==
  IF is_loopback(client_ip) THEN TRUE
  ELSE IF client_ip.v = 4 /\ target_addr.v = 4
       THEN IF is_private(client_ip) /\ is_private(target_addr)
            THEN SubSeq(client_ip.o, 1, 3) = SubSeq(target_addr.o, 1, 3)
            ELSE FALSE
  ELSE IF client_ip.v = 6 /\ target_addr.v = 6
       THEN is_ipv6_link_local(client_ip) /\ is_ipv6_link_local(target_addr)
  ELSE FALSE

\* should_suppress_address_record(record, config)
should_suppress_address_record(record, config) ==
  IF ~config.enabled THEN FALSE
  ELSE IF config.client_ip = NoClient THEN FALSE
  ELSE IF record.rdata.kind = RT_A
       THEN is_ipv4_link_local(record.rdata.addr)
            /\ ~is_same_link(config.client_ip, record.rdata.addr)
  ELSE IF record.rdata.kind = RT_AAAA
       THEN \/ is_ipv6_link_local(record.rdata.addr)
               /\ ~is_same_link(config.client_ip, record.rdata.addr)
            \/ is_ipv6_ula(record.rdata.addr)
               /\ ~is_same_link(config.client_ip, record.rdata.addr)
  ELSE FALSE

\* should_suppress_srv_record(record, address_records, config)
should_suppress_srv_record(record, address_records, config) ==
  IF ~config.enabled THEN FALSE
  ELSE IF record.rdata.kind = RT_SRV
       THEN \E i \in 1..Len(address_records) :
              /\ Name_eq(address_records[i].name, record.rdata.target)
              /\ should_suppress_address_record(address_records[i], config)
  ELSE FALSE

\* filter_suppressed_records looking at address records only
filter_suppressed_records_addresses_only(records, config) ==
  IF ~config.enabled THEN records
  ELSE LET keep(r) ==
             IF r.rdata.kind \in {RT_A, RT_AAAA}
             THEN ~should_suppress_address_record(r, config)
             ELSE TRUE
       IN SelectSeq(records, keep)

\* filter_suppressed_records(records, config)
filter_suppressed_records(records, config) ==
  IF ~config.enabled THEN records
  ELSE LET isAddr(r) == r.rdata.kind \in {RT_A, RT_AAAA}
           address_records == SelectSeq(records, isAddr)
           keep(r) ==
             IF isAddr(r) THEN ~should_suppress_address_record(r, config)
             ELSE IF r.rdata.kind = RT_SRV
                  THEN ~should_suppress_srv_record(r, address_records, config)
             ELSE TRUE
       IN SelectSeq(records, keep)

\* ------------------------------------------------------------------------
\* mdns_resolver/cache.rs
\* ------------------------------------------------------------------------
\* Cache::make_key: format!("{}:{:?}", name, record_type)
make_key(name, record_type) == name \o <<":", record_type>>

\* Cache::insert, first half: cache.insert(cache_key, CacheEntry {records,
\* timestamp: Instant::now()}) replaces the entry under the key
Cache_store(data, clock, name, record_type, records) ==
  [k \in DOMAIN data \cup {make_key(name, record_type)} |->
     IF k = make_key(name, record_type) THEN [records |-> records, timestamp |-> clock]
     ELSE data[k]]

\* Cache::insert without the clean-up of old entries
Cache_retain_keep_all(data, ttl, clock) == data

\* Cache::insert, second half: cache.retain(|_, entry| elapsed < ttl)
Cache_retain(data, ttl, clock) ==
  [k \in {j \in DOMAIN data : clock - data[j].timestamp < ttl} |-> data[k]]

\* RwLock::read returning while a writer holds the lock
RwLock_read_ready_during_write(lock) == TRUE

\* RwLock::read returns once no writer holds the lock
RwLock_read_ready(lock) == lock.writer = 0

\* RwLock::write returns once nobody holds the lock
RwLock_write_ready(lock) == lock.writer = 0 /\ lock.readers = {}

\* Cache::get taking an entry whose age equals the TTL as still valid
Cache_get_inclusive(data, ttl, clock, name, record_type) ==
  LET cache_key == make_key(name, record_type)
  IN IF cache_key \in DOMAIN data /\ clock - data[cache_key].timestamp <= ttl
     THEN [some |-> TRUE, records |-> data[cache_key].records]
     ELSE [some |-> FALSE, records |-> <<>>]

\* Cache::insert keeping the list already stored under the key
Cache_insert_keep_first(data, ttl, clock, name, record_type, records) ==
  LET cache_key == make_key(name, record_type)
      stored == [k \in DOMAIN data \cup {cache_key} |->
                   IF k \in DOMAIN data THEN data[k]
                   ELSE [records |-> records, timestamp |-> clock]]
      kept == {k \in DOMAIN stored : clock - stored[k].timestamp < ttl}
  IN [k \in kept |-> stored[k]]

\* Cache::get: the records of a stored entry younger than the TTL
Cache_get(data, ttl, clock, name, record_type) ==
  LET cache_key == make_key(name, record_type)
  IN IF cache_key \in DOMAIN data /\ clock - data[cache_key].timestamp < ttl
     THEN [some |-> TRUE, records |-> data[cache_key].records]
     ELSE [some |-> FALSE, records |-> <<>>]

\* Cache::insert: store the entry stamped with the current instant, then
\* retain only the entries younger than the TTL
Cache_insert(data, ttl, clock, name, record_type, records) ==
  Cache_retain(Cache_store(data, clock, name, record_type, records), ttl, clock)

\* ------------------------------------------------------------------------
\* Configuration (config.rs), with durations in units of one poll interval
\* ------------------------------------------------------------------------
\* Config::discovery_domain()
discovery_domain == default_discovery_domain
\* Config::cache_ttl()
cache_ttl == 2
\* Config::service_query_timeout()
service_query_timeout == 1
\* Config::service_poll_interval()
service_poll_interval == 1
\* Config::hostname_resolution_timeout()
hostname_resolution_timeout == 1

\* ------------------------------------------------------------------------
\* mdns_resolver/resolver.rs: the domain rewriter and the TTL cap
\* ------------------------------------------------------------------------
MAX_UNICAST_TTL == 10

\* map_query_to_local(name, discovery_domain): Result<Name>
map_query_to_local(name, dd) ==
  LET mapped == to_lowercase(Name_to_utf8(name))
      disc == to_lowercase(dd)
      disc_no_dot == trim_end_dots(disc)
      out == IF ends_with(mapped, disc)
             THEN trim_end_dots(SubSeq(mapped, 1, Len(mapped) - Len(disc))) \o STR_dot_local_dot
             ELSE IF ends_with(mapped, disc_no_dot)
             THEN trim_end_dots(SubSeq(mapped, 1, Len(mapped) - Len(disc_no_dot))) \o STR_dot_local_dot
             ELSE mapped
  IN Name_from_utf8(out)

\* rewrite_name_to_discovery(name, discovery_domain): Result<Name>
rewrite_name_to_discovery(name, dd) ==
  LET n == Name_to_utf8(name)
      disc == to_lowercase(dd)
      lower == to_lowercase(n)
  IN IF ends_with(lower, STR_local)
     THEN Name_from_utf8(SubSeq(n, 1, Len(n) - Len(STR_local)) \o disc)
     ELSE [ok |-> TRUE, labels |-> name.labels, fqdn |-> name.fqdn]

\* the Name inside a successful Result<Name>
Unwrap(res) == [labels |-> res.labels, fqdn |-> res.fqdn]

\* one record of rewrite_records_to_discovery_domain: owner and embedded
\* names rewritten, TTL and scalar fields kept
rewrite_record_to_discovery(record, dd) ==
  LET rw(n) == Unwrap(rewrite_name_to_discovery(n, dd))
      new_name == rw(record.name)
      d == record.rdata
      new_data ==
        CASE d.kind = RT_PTR -> RData_PTR(rw(d.target))
          [] d.kind = RT_SRV -> RData_SRV(d.priority, d.weight, d.port, rw(d.target))
          [] d.kind = RT_NS -> RData_NS(rw(d.target))
          [] d.kind = RT_SOA -> RData_SOA(rw(d.mname), rw(d.rname), d.serial, d.refresh,
                                          d.retry, d.expire, d.minimum)
          [] OTHER -> d
  IN Record_from_rdata(new_name, record.ttl, new_data)

\* rewrite_records_to_discovery_domain(records, discovery_domain):
\* Result<Vec<Record>>; an unparsable rewritten name fails the whole call
rewrite_records_to_discovery_domain(records, dd) ==
  LET bad(r) == \/ ~rewrite_name_to_discovery(r.name, dd).ok
                \/ \E n \in EmbeddedNames(r) : ~rewrite_name_to_discovery(n, dd).ok
  IN IF \E i \in 1..Len(records) : bad(records[i])
     THEN [ok |-> FALSE, records |-> <<>>]
     ELSE [ok |-> TRUE,
           records |-> [i \in 1..Len(records) |-> rewrite_record_to_discovery(records[i], dd)]]

\* MdnsResolver::query without its TTL cap
cap_ttl_uncapped(record) == record

\* the TTL cap of MdnsResolver::query
cap_ttl(record) ==
  IF record.ttl > MAX_UNICAST_TTL THEN [record EXCEPT !.ttl = MAX_UNICAST_TTL] ELSE record

cap_ttls(records) == [i \in 1..Len(records) |-> cap_ttl(records[i])]

\* the cache insertion without the test for an empty list
insert_nonempty_unconditional(data, clock, query_name, record_type, records) ==
  Cache_insert(data, cache_ttl, clock, query_name, record_type, records)

\* the cache insertion keeping the entry a concurrent query stored first
insert_nonempty_if_absent(data, clock, query_name, record_type, records) ==
  IF records # <<>> /\ make_key(query_name, record_type) \notin DOMAIN data
  THEN Cache_insert(data, cache_ttl, clock, query_name, record_type, records)
  ELSE data

\* the cache insertion of MdnsResolver::query: only a non-empty list is stored
insert_nonempty(data, clock, query_name, record_type, records) ==
  IF records # <<>>
  THEN Cache_insert(data, cache_ttl, clock, query_name, record_type, records)
  ELSE data

inserted(records) == IF records # <<>> THEN 1 ELSE 0

\* MdnsResolver::query, A/AAAA question, caching only the list it returns
query_finish_addresses_own_family_only(data, clock, query_name, record_type, a_records, aaaa_records) ==
  [ok |-> TRUE,
   records |-> IF record_type = RT_A THEN a_records ELSE aaaa_records,
   data |-> insert_nonempty(data, clock, query_name, record_type,
                            IF record_type = RT_A THEN a_records ELSE aaaa_records),
   inserts |-> inserted(IF record_type = RT_A THEN a_records ELSE aaaa_records)]

\* MdnsResolver::query, A/AAAA question, returning every record learnt
query_finish_addresses_unpartitioned(data, clock, query_name, record_type, a_records, aaaa_records) ==
  [ok |-> TRUE,
   records |-> a_records \o aaaa_records,
   data |-> insert_nonempty(insert_nonempty(data, clock, query_name, RT_A, a_records),
                            clock, query_name, RT_AAAA, aaaa_records),
   inserts |-> inserted(a_records) + inserted(aaaa_records)]

\* MdnsResolver::query, A/AAAA question, caching every record learnt under
\* the key of the question
query_finish_addresses_one_key(data, clock, query_name, record_type, a_records, aaaa_records) ==
  [ok |-> TRUE,
   records |-> IF record_type = RT_A THEN a_records ELSE aaaa_records,
   data |-> insert_nonempty(data, clock, query_name, record_type, a_records \o aaaa_records),
   inserts |-> inserted(a_records \o aaaa_records)]

\* MdnsResolver::query, A/AAAA question: the A records and the others are
\* cached under their own types, the list of the question's type is returned
query_finish_addresses(data, clock, query_name, record_type, a_records, aaaa_records) ==
  [ok |-> TRUE,
   records |-> IF record_type = RT_A THEN a_records ELSE aaaa_records,
   data |-> insert_nonempty(insert_nonempty(data, clock, query_name, RT_A, a_records),
                            clock, query_name, RT_AAAA, aaaa_records),
   inserts |-> inserted(a_records) + inserted(aaaa_records)]

\* MdnsResolver::query once the records are rewritten and capped
query_finish_records(data, clock, query_name, record_type, records) ==
  LET isA(r) == r.rtype = RT_A
      notA(r) == r.rtype # RT_A
  IN IF record_type \in {RT_A, RT_AAAA}
     THEN query_finish_addresses(data, clock, query_name, record_type,
                                 SelectSeq(records, isA), SelectSeq(records, notA))
     ELSE [ok |-> TRUE, records |-> records,
           data |-> insert_nonempty(data, clock, query_name, record_type, records),
           inserts |-> inserted(records)]

\* MdnsResolver::query once the records are rewritten: the error of the
\* rewrite is propagated, otherwise the TTLs are capped
query_finish_rewritten(data, clock, query_name, record_type, rewritten) ==
  IF ~rewritten.ok
  THEN [ok |-> FALSE, records |-> <<>>, data |-> data, inserts |-> 0]
  ELSE query_finish_records(data, clock, query_name, record_type, cap_ttls(rewritten.records))

\* MdnsResolver::query after the mDNS query returned mdns_records: rewrite,
\* cap, split A from the rest for A/AAAA questions, insert the non-empty
\* lists into the cache, return the list of the question's type
query_finish(data, clock, query_name, record_type, mdns_records) ==
  query_finish_rewritten(data, clock, query_name, record_type,
                         rewrite_records_to_discovery_domain(mdns_records, discovery_domain))

\* ------------------------------------------------------------------------
\* The mDNS daemon: what is advertised on the link
\* ------------------------------------------------------------------------
Addr_global4 == IPv4(192, 0, 2, 17)
Addr_linklocal4 == IPv4(169, 254, 1, 1)
Addr_linklocal6 == IPv6(254, 128, 1)

\* ServiceInfo: fullname, hostname, port, properties, addresses
Info_web ==
  [fullname |-> L_web \o Dot \o L_http \o Dot \o L_tcp \o Dot \o STR_local,
   hostname |-> L_printer \o Dot \o STR_local,
   port |-> 80,
   properties |-> << [key |-> <<"k">>, val |-> <<"v">>] >>,
   addresses |-> <<Addr_global4, Addr_linklocal6>>]

Info_nas ==
  [fullname |-> L_nas \o Dot \o L_http \o Dot \o L_tcp \o Dot \o STR_local,
   hostname |-> L_nas \o Dot \o STR_local,
   port |-> 8080,
   properties |-> <<>>,
   addresses |-> <<Addr_linklocal4>>]

Infos == {Info_web, Info_nas}

\* the ServiceEvents a browse of service_type may receive: the resolved
\* instances of that type, and the search bookkeeping events
ServiceEvents(service_type) ==
  [type : {"ServiceResolved"},
   info : {i \in Infos : join(Tail(split(i.fullname))) = service_type}]
    \cup {[type |-> "SearchStarted"], [type |-> "SearchStopped"], [type |-> "ServiceFound"]}

\* ------------------------------------------------------------------------
\* mdns_resolver/query.rs
\* ------------------------------------------------------------------------
MDNS_RECORD_TTL == 120

\* query_ptr, ServiceResolved arm: Result<Record>
ptr_record(service_type, info) ==
  LET ptr_name == Name_from_utf8(service_type)
      target_name == Name_from_utf8(info.fullname)
  IN IF ptr_name.ok /\ target_name.ok
     THEN [ok |-> TRUE,
           record |-> Record_from_rdata(Unwrap(ptr_name), MDNS_RECORD_TTL,
                                        RData_PTR(Unwrap(target_name)))]
     ELSE [ok |-> FALSE, record |-> <<>>]

\* query_srv, matching ServiceResolved arm: Result<Record>
srv_record(service_name, info) ==
  LET srv_name == Name_from_utf8(service_name)
      target == Name_from_utf8(info.hostname)
  IN IF srv_name.ok /\ target.ok
     THEN [ok |-> TRUE,
           record |-> Record_from_rdata(Unwrap(srv_name), MDNS_RECORD_TTL,
                                        RData_SRV(0, 0, info.port, Unwrap(target)))]
     ELSE [ok |-> FALSE, record |-> <<>>]

\* query_txt, matching ServiceResolved arm: Result<Vec<Record>> (no record
\* when the instance has no properties)
txt_records(service_name, info) ==
  LET txt_name == Name_from_utf8(service_name)
      txt == [i \in 1..Len(info.properties) |->
                info.properties[i].key \o <<"=">> \o info.properties[i].val]
  IN IF ~txt_name.ok THEN [ok |-> FALSE, records |-> <<>>]
     ELSE IF txt # <<>>
     THEN [ok |-> TRUE,
           records |-> << Record_from_rdata(Unwrap(txt_name), MDNS_RECORD_TTL, RData_TXT(txt)) >>]
     ELSE [ok |-> TRUE, records |-> <<>>]

\* query_srv / query_txt: the service type of an instance name, none when
\* the name splits into fewer than four pieces
instance_service_type(service_name) ==
  LET parts == split(service_name)
  IN IF Len(parts) < 4 THEN [some |-> FALSE, service_type |-> <<>>]
     ELSE [some |-> TRUE, service_type |-> join(Tail(parts))]

\* query_soa
query_soa(name) ==
  << Record_from_rdata(name, 10,
       RData_SOA(NameOf(L_discovery_proxy \o Dot \o STR_local),
                 NameOf(L_hostmaster \o Dot \o STR_local),
                 0, 7200, 3600, 86400, 10)) >>

\* query_ns
query_ns(name) ==
  << Record_from_rdata(name, 10, RData_NS(NameOf(L_discovery_proxy \o Dot \o STR_local))) >>

\* query_a_aaaa, AddressesFound arm: one A or AAAA record per address,
\* owned by the queried hostname
address_records_of(hostname, addrs) ==
  [i \in 1..Len(addrs) |->
     Record_from_rdata(hostname, MDNS_RECORD_TTL,
       IF addrs[i].v = 4 THEN RData_A(addrs[i]) ELSE RData_AAAA(addrs[i]))]

\* ------------------------------------------------------------------------
\* dns_handler/handler.rs
\* ------------------------------------------------------------------------
\* MdnsDnsHandler::new: zone_apex = Name::from_utf8("local.")
zone_apex == NameOf(STR_local)

\* MdnsDnsHandler::new: suppression_config = RecordSuppressionConfig::default()
suppression_config == RecordSuppressionConfig_default

\* MdnsDnsHandler::should_handle
should_handle(name) == should_handle_domain(Name_to_utf8(name))

\* MdnsDnsHandler::handle_admin_query: Option<Vec<Record>>, with the branch
\* that answered
handle_admin_query(name, record_type) ==
  IF is_domain_enumeration_query(name, record_type)
  THEN [some |-> TRUE, kind |-> "DomainEnumeration",
        records |-> generate_domain_enumeration_records(name, zone_apex)]
  ELSE IF is_admin_srv_query(name, record_type)
  THEN IF is_negative_admin_srv_query(name)
       THEN [some |-> TRUE, kind |-> "NegativeSrv", records |-> <<>>]
       ELSE [some |-> TRUE, kind |-> "AdminSrv", records |-> <<>>]
  ELSE IF record_type = RT_SOA /\ is_zone_apex_query(name, zone_apex)
  THEN [some |-> TRUE, kind |-> "ZoneSoa", records |-> <<generate_soa_record(name)>>]
  ELSE IF is_delegation_query_below_apex(name, RT_SOA, zone_apex)
  THEN [some |-> TRUE, kind |-> "DelegationBelowApex", records |-> <<>>]
  ELSE IF record_type = RT_NS /\ is_zone_apex_query(name, zone_apex)
  THEN [some |-> TRUE, kind |-> "ZoneNs", records |-> <<generate_ns_record(name)>>]
  ELSE IF is_delegation_query_below_apex(name, RT_NS, zone_apex)
  THEN [some |-> TRUE, kind |-> "DelegationBelowApex", records |-> <<>>]
  ELSE IF is_delegation_query_below_apex(name, RT_DS, zone_apex)
  THEN [some |-> TRUE, kind |-> "DelegationBelowApex", records |-> <<>>]
  ELSE [some |-> FALSE, kind |-> "None", records |-> <<>>]

\* the response built after resolver.query returned: response code from
\* build_response_from_records, answers after filter_suppressed_records
resolve_response(result) ==
  LET built == build_response_from_records(result)
      filtered == filter_suppressed_records(built.records, suppression_config)
  IN [code |-> built.code, answers |-> IF built.some THEN filtered ELSE <<>>]

\* ------------------------------------------------------------------------
\* Inputs
\* ------------------------------------------------------------------------
D == discovery_domain

N_printer_D == L_printer \o Dot \o D
N_Printer_D == <<"P","r","i","n","t","e","r",".">> \o D
N_example_com == <<"e","x","a","m","p","l","e",".","c","o","m",".">>
N_http_D == L_http \o Dot \o L_tcp \o Dot \o D
N_HTTP_D == <<"_","H","T","T","P",".">> \o L_tcp \o Dot \o D
N_web_http_D == L_web \o Dot \o L_http \o Dot \o L_tcp \o Dot \o D
N_test_local == <<"t","e","s","t",".">> \o STR_local
N_http_local == L_http \o Dot \o L_tcp \o Dot \o STR_local
N_nas_D == L_nas \o Dot \o D

\* the domain enumeration names and the administrative SRV names under D
EnumNames == {p \o Dot \o L_dns_sd \o Dot \o L_udp \o Dot \o D : p \in {L_b, L_db, L_lb}}
AdminSrvNames == {p \o D : p \in AdminSrvPrefixes}

\* the questions (name, type) put to the handler
HandlerQuestions ==
  ({N_http_D} \X {RT_PTR, RT_SRV, RT_SOA})
    \cup ({N_web_http_D} \X {RT_SRV, RT_TXT, RT_A})
    \cup ({N_printer_D} \X {RT_A, RT_SOA})
    \cup ({N_test_local} \X {RT_A, RT_PTR, RT_SOA, RT_NS, RT_DS})
    \cup ({D, STR_local, N_example_com} \X {RT_A, RT_PTR, RT_SOA, RT_NS, RT_DS})
    \cup (EnumNames \X {RT_PTR, RT_A})
    \cup (AdminSrvNames \X {RT_SRV, RT_A})
    \cup ({N_http_local} \X {RT_PTR})
    \cup ({N_nas_D} \X {RT_A})

\* the questions put to MdnsResolver::query directly
DirectQuestions ==
  ({N_http_D} \X {RT_PTR, RT_SRV})
    \cup ({N_HTTP_D} \X {RT_PTR})
    \cup ({N_printer_D} \X {RT_SRV})
    \cup ({N_web_http_D} \X {RT_SRV, RT_TXT, RT_A})
    \cup ({N_printer_D, N_Printer_D} \X {RT_A, RT_AAAA})
    \cup ({N_test_local} \X {RT_SOA, RT_NS, RT_A, RT_MX})

RequestIds == {7}

\* ------------------------------------------------------------------------
\* State
\* ------------------------------------------------------------------------
VARIABLES
  cache,     \* Cache.data: cache key -> [records, timestamp]
  now,       \* the monotonic clock
  pc,        \* "idle", "browse" (query_ptr/srv/txt loop), "resolve" (query_a_aaaa loop)
  call,      \* the MdnsResolver::query call, or handler request, in progress or last made
  br,        \* the locals of the running query routine
  result,    \* what the last MdnsResolver::query call returned
  response,  \* the last response handed to send_response
  trace,     \* what the last request or call did: class, resolver calls, cache reads/writes, sends
  nreq,      \* requests and direct calls made so far
  tcache,    \* a Cache used on its own (Cache::new, insert, get), apart from the server
  rw,        \* threads sharing one Cache through its RwLock, apart from the server
  unit       \* a function called on its own: its arguments and what it returned

vars == <<cache, now, pc, call, br, result, response, trace, nreq, tcache, rw, unit>>

\* the state of the server
server == <<cache, now, pc, call, br, result, response, trace, nreq>>

\* the state the server's steps leave alone
standalone == <<tcache, rw, unit>>

\* no function was called on its own
NoUnit == [fn |-> "none"]

\* no Cache is used on its own
NoTestCache == [ttl |-> 0, data |-> [k \in {} |-> <<>>], clock |-> 0,
                last |-> [k \in {} |-> <<>>], got |-> [valid |-> FALSE], ops |-> 0]
Threads == 1..3
NoThread == [pc |-> "idle", key |-> <<>>, records |-> <<>>, seen |-> <<>>, base |-> <<>>]
NoThreads == [data |-> [k \in {} |-> <<>>], committed |-> [k \in {} |-> <<>>], clock |-> 0,
              readers |-> {}, writer |-> 0, th |-> [t \in Threads |-> NoThread], ops |-> 0]

NoBrowse == [kind |-> "none", service_name |-> <<>>, service_type |-> <<>>,
             records |-> <<>>, start |-> 0, events |-> 0]
NoResult == [valid |-> FALSE, ok |-> FALSE, records |-> <<>>, cached |-> FALSE]
NoResponse == [valid |-> FALSE, id |-> 0, qr |-> "Query", code |-> RC_NoError, answers |-> <<>>,
               delivered |-> FALSE]
NoCall == [via |-> "none", name |-> NameOf(Dot), rtype |-> RT_A, id |-> 0, malformed |-> FALSE,
           src |-> NoClient]
NewTrace(class) == [class |-> class, kind |-> "None", resolver_calls |-> 0, cache_reads |-> 0,
                    cache_writes |-> 0, browses |-> 0, polls |-> 0, sends |-> 0,
                    send_errors |-> 0, transport_errors |-> 0]

ServerInit ==
  /\ cache = [k \in {} |-> <<>>]
  /\ now = 0
  /\ pc = "idle"
  /\ call = NoCall
  /\ br = NoBrowse
  /\ result = NoResult
  /\ response = NoResponse
  /\ trace = NewTrace("None")
  /\ nreq = 0
  /\ tcache = NoTestCache
  /\ rw = NoThreads

Init == ServerInit /\ unit = NoUnit

\* ------------------------------------------------------------------------
\* MdnsResolver::query, step by step
\* ------------------------------------------------------------------------
\* what a step of MdnsResolver::query comes to: the call returns res without
\* a query routine having run ("return"), a query routine returned its
\* Result ("finish"), the routine waits for the next event ("suspend" when
\* it starts, "continue" afterwards)
O_Return(ok, records, cached, read) ==
  [tag |-> "return", ok |-> ok, records |-> records, cached |-> cached, read |-> read,
   kind |-> "none", service_name |-> <<>>, service_type |-> <<>>]
O_Finish(ok, records) ==
  [tag |-> "finish", ok |-> ok, records |-> records, cached |-> FALSE, read |-> TRUE,
   kind |-> "none", service_name |-> <<>>, service_type |-> <<>>]
O_Suspend(kind, service_name, service_type) ==
  [tag |-> "suspend", ok |-> TRUE, records |-> <<>>, cached |-> FALSE, read |-> TRUE,
   kind |-> kind, service_name |-> service_name, service_type |-> service_type]
O_Continue(records) ==
  [tag |-> "continue", ok |-> TRUE, records |-> records, cached |-> FALSE, read |-> FALSE,
   kind |-> "none", service_name |-> <<>>, service_type |-> <<>>]

\* the dispatch of MdnsResolver::query on the record type, up to the first
\* wait of the routine; started tells whether daemon.browse succeeded
query_dispatch(mdns_name, mdns_query, record_type, started) ==
  CASE record_type \in {RT_A, RT_AAAA} ->
         IF ~ends_with(mdns_query, STR_dot_local_dot) /\ ~ends_with(mdns_query, STR_dot_local)
         THEN O_Finish(TRUE, <<>>)
         ELSE O_Suspend("ADDR", mdns_query, mdns_query)
    [] record_type = RT_PTR ->
         IF started THEN O_Suspend(RT_PTR, mdns_query, mdns_query) ELSE O_Finish(FALSE, <<>>)
    [] record_type \in {RT_SRV, RT_TXT} ->
         IF ~instance_service_type(mdns_query).some THEN O_Finish(TRUE, <<>>)
         ELSE IF started
         THEN O_Suspend(record_type, mdns_query, instance_service_type(mdns_query).service_type)
         ELSE O_Finish(FALSE, <<>>)
    [] record_type = RT_SOA -> O_Finish(TRUE, query_soa(mdns_name))
    [] record_type = RT_NS -> O_Finish(TRUE, query_ns(mdns_name))
    [] OTHER -> O_Finish(TRUE, <<>>)

\* MdnsResolver::query from its entry: map the name, look in the cache,
\* dispatch
query_begin(data, clock, name, record_type, started) ==
  IF ~map_query_to_local(name, discovery_domain).ok
  THEN O_Return(FALSE, <<>>, FALSE, FALSE)
  ELSE IF Cache_get(data, cache_ttl, clock, Name_to_utf8(name), record_type).some
  THEN O_Return(TRUE, Cache_get(data, cache_ttl, clock, Name_to_utf8(name), record_type).records,
                TRUE, TRUE)
  ELSE query_dispatch(Unwrap(map_query_to_local(name, discovery_domain)),
                      Name_to_utf8(Unwrap(map_query_to_local(name, discovery_domain))),
                      record_type, started)

\* the browse loop going on after the matching instance was resolved
browse_event_without_break(b, ev) ==
  IF ev.type = "SearchStopped" THEN O_Finish(TRUE, b.records)
  ELSE IF ev.type # "ServiceResolved" THEN O_Continue(b.records)
  ELSE CASE b.kind = RT_PTR ->
              IF ptr_record(b.service_type, ev.info).ok
              THEN O_Continue(Append(b.records, ptr_record(b.service_type, ev.info).record))
              ELSE O_Finish(FALSE, <<>>)
         [] b.kind = RT_SRV ->
              IF ev.info.fullname # b.service_name THEN O_Continue(b.records)
              ELSE IF srv_record(b.service_name, ev.info).ok
              THEN O_Continue(Append(b.records, srv_record(b.service_name, ev.info).record))
              ELSE O_Finish(FALSE, <<>>)
         [] b.kind = RT_TXT ->
              IF ev.info.fullname # b.service_name THEN O_Continue(b.records)
              ELSE IF txt_records(b.service_name, ev.info).ok
              THEN O_Continue(b.records \o txt_records(b.service_name, ev.info).records)
              ELSE O_Finish(FALSE, <<>>)

\* one event of the browse loop of query_ptr / query_srv / query_txt
browse_event(b, ev) ==
  IF ev.type = "SearchStopped" THEN O_Finish(TRUE, b.records)
  ELSE IF ev.type # "ServiceResolved" THEN O_Continue(b.records)
  ELSE CASE b.kind = RT_PTR ->
              IF ptr_record(b.service_type, ev.info).ok
              THEN O_Continue(Append(b.records, ptr_record(b.service_type, ev.info).record))
              ELSE O_Finish(FALSE, <<>>)
         [] b.kind = RT_SRV ->
              IF ev.info.fullname # b.service_name THEN O_Continue(b.records)
              ELSE IF srv_record(b.service_name, ev.info).ok
              THEN O_Finish(TRUE, Append(b.records, srv_record(b.service_name, ev.info).record))
              ELSE O_Finish(FALSE, <<>>)
         [] b.kind = RT_TXT ->
              IF ev.info.fullname # b.service_name THEN O_Continue(b.records)
              ELSE IF txt_records(b.service_name, ev.info).ok
              THEN O_Finish(TRUE, b.records \o txt_records(b.service_name, ev.info).records)
              ELSE O_Finish(FALSE, <<>>)

\* ------------------------------------------------------------------------
\* Address resolution (query_a_aaaa)
\* ------------------------------------------------------------------------
\* the addresses the link advertises for a hostname
HostAddresses(hostname) ==
  IF hostname = Info_web.hostname THEN Info_web.addresses
  ELSE IF hostname = Info_nas.hostname THEN Info_nas.addresses
  ELSE <<>>

\* the address lists one AddressesFound / AddressesRemoved event may carry
AddressLists(hostname) ==
  LET all == HostAddresses(hostname)
  IN {<<all[i]>> : i \in 1..Len(all)} \cup (IF Len(all) > 1 THEN {all} ELSE {})

\* the order of rdata: A before AAAA, then octet by octet
RECURSIVE OctetsLess(_, _)
OctetsLess(a, b) ==
  IF a = <<>> \/ b = <<>> THEN a = <<>> /\ b # <<>>
  ELSE IF Head(a) # Head(b) THEN Head(a) < Head(b)
  ELSE OctetsLess(Tail(a), Tail(b))

RDataLess(x, y) == OctetsLess(<<x.addr.v>> \o x.addr.o, <<y.addr.v>> \o y.addr.o)

\* stable sort by rdata
RECURSIVE InsertByRData(_, _)
InsertByRData(sorted, r) ==
  IF sorted = <<>> THEN <<r>>
  ELSE IF RDataLess(r.rdata, Head(sorted).rdata) THEN <<r>> \o sorted
  ELSE <<Head(sorted)>> \o InsertByRData(Tail(sorted), r)

RECURSIVE SortByRData(_)
SortByRData(records) ==
  IF records = <<>> THEN <<>>
  ELSE InsertByRData(SortByRData(SubSeq(records, 1, Len(records) - 1)), records[Len(records)])

\* dedup of adjacent records with equal rdata
RECURSIVE DedupByRData(_)
DedupByRData(records) ==
  IF Len(records) <= 1 THEN records
  ELSE IF records[1].rdata = records[2].rdata THEN DedupByRData(Tail(records))
  ELSE <<records[1]>> \o DedupByRData(Tail(records))

\* ------------------------------------------------------------------------
\* Actions
\* ------------------------------------------------------------------------
\* MdnsResolver::query returns res to its caller c with the cache as data;
\* a handler request goes on to build its response resp and to call
\* send_response once; a failed send is logged and the handler returns
Return(c, t, res, data, cached, inserts, resp) ==
  /\ cache' = data
  /\ pc' = "idle"
  /\ br' = NoBrowse
  /\ call' = c
  /\ result' = [valid |-> TRUE, ok |-> res.ok, records |-> res.records, cached |-> cached]
  /\ IF c.via = "handler"
     THEN \E delivered \in BOOLEAN :
            /\ response' = [valid |-> TRUE, id |-> c.id, qr |-> "Response",
                            code |-> resp.code, answers |-> resp.answers,
                            delivered |-> delivered]
            /\ trace' = [t EXCEPT !.sends = @ + 1, !.cache_writes = @ + inserts,
                                  !.send_errors = IF delivered THEN @ ELSE @ + 1]
     ELSE /\ response' = NoResponse
          /\ trace' = [t EXCEPT !.cache_writes = @ + inserts]

ReturnResult(c, t, res, data, cached, inserts) ==
  Return(c, t, res, data, cached, inserts, resolve_response(res))

\* the tail of MdnsResolver::query once the query routine returned Ok
ReturnFinished(c, t, f) ==
  ReturnResult(c, t, [ok |-> f.ok, records |-> f.records], f.data, FALSE, f.inserts)

\* the routine suspends in its event loop
Suspend(c, t, o) ==
  /\ pc' = IF o.kind = "ADDR" THEN "resolve" ELSE "browse"
  /\ br' = [kind |-> o.kind, service_name |-> o.service_name, service_type |-> o.service_type,
            records |-> <<>>, start |-> now, events |-> 0]
  /\ call' = c
  /\ trace' = [t EXCEPT !.browses = @ + 1]
  /\ result' = NoResult
  /\ response' = NoResponse
  /\ cache' = cache

\* the effect of a step of MdnsResolver::query that came to o; the records
\* of a finished routine are cached at the instant the routine returned
Apply(c, t, o) ==
  CASE o.tag = "suspend" -> Suspend(c, t, o)
    [] o.tag = "continue" ->
         /\ br' = [br EXCEPT !.records = o.records, !.events = @ + 1]
         /\ UNCHANGED <<cache, pc, call, result, response, trace>>
    [] o.tag = "finish" /\ o.ok ->
         ReturnFinished(c, t, query_finish(cache, now', Name_to_utf8(c.name), c.rtype, o.records))
    [] OTHER ->
         ReturnResult(c, t, [ok |-> o.ok, records |-> o.records], cache, o.cached, 0)

\* the trace of a call that came to o at the entry of MdnsResolver::query
\* (the dispatch finishes with Err only when daemon.browse failed)
BeginTrace(class, o) ==
  [NewTrace(class) EXCEPT !.resolver_calls = 1, !.cache_reads = IF o.read THEN 1 ELSE 0,
                          !.transport_errors = IF o.tag = "finish" /\ ~o.ok THEN 1 ELSE 0]

\* MdnsResolver::query is called for c
QueryBegin(c, class, o) == Apply(c, BeginTrace(class, o), o)

\* Respond calling send_response again after a failed send
Respond_retrying(c, t, code, answers, header_id, qr) ==
  /\ \E delivered \in BOOLEAN :
       /\ response' = [valid |-> TRUE, id |-> header_id, qr |-> qr, code |-> code,
                       answers |-> answers, delivered |-> delivered]
       /\ trace' = [t EXCEPT !.sends = IF delivered THEN @ + 1 ELSE @ + 2,
                             !.send_errors = IF delivered THEN @ ELSE @ + 1]
  /\ call' = c
  /\ result' = NoResult
  /\ UNCHANGED <<cache, pc, br>>

\* the handler calls send_response without calling the resolver; a failed
\* send is logged and the handler returns
Respond(c, t, code, answers, header_id, qr) ==
  /\ \E delivered \in BOOLEAN :
       /\ response' = [valid |-> TRUE, id |-> header_id, qr |-> qr, code |-> code,
                       answers |-> answers, delivered |-> delivered]
       /\ trace' = [t EXCEPT !.sends = @ + 1,
                             !.send_errors = IF delivered THEN @ ELSE @ + 1]
  /\ call' = c
  /\ result' = NoResult
  /\ UNCHANGED <<cache, pc, br>>

\* Request::src() of the requests: a client across a router, on no link of
\* the proxy
Client_remote == IPv4(198, 51, 100, 7)

\* the request the transport hands to the handler for question q; a
\* malformed request has no question the handler can read
Request(q, id, malformed) ==
  IF malformed
  THEN [via |-> "handler", name |-> NoCall.name, rtype |-> NoCall.rtype,
        id |-> id, malformed |-> TRUE, src |-> Client_remote]
  ELSE [via |-> "handler", name |-> LowerName(NameOf(q[1])), rtype |-> q[2],
        id |-> id, malformed |-> FALSE, src |-> Client_remote]

\* handle_request without the test for a malformed request
handle_request_no_formerr(c) ==
  IF ~should_handle(c.name)
  THEN [sent |-> TRUE, class |-> "Refuse", kind |-> "None", code |-> RC_NXDomain,
        answers |-> <<>>, id |-> c.id, qr |-> "Response"]
  ELSE IF handle_admin_query(c.name, c.rtype).some
  THEN [sent |-> TRUE, class |-> "Admin", kind |-> handle_admin_query(c.name, c.rtype).kind,
        code |-> RC_NoError, answers |-> handle_admin_query(c.name, c.rtype).records,
        id |-> c.id, qr |-> "Response"]
  ELSE [sent |-> FALSE, class |-> "Resolve", kind |-> "None", code |-> RC_NoError,
        answers |-> <<>>, id |-> c.id, qr |-> "Response"]

\* handle_request without the refusal of names should_handle rejects
handle_request_no_refusal(c) ==
  IF c.malformed
  THEN [sent |-> TRUE, class |-> "Malformed", kind |-> "None", code |-> RC_FormErr,
        answers |-> <<>>, id |-> 0, qr |-> "Query"]
  ELSE IF handle_admin_query(c.name, c.rtype).some
  THEN [sent |-> TRUE, class |-> "Admin", kind |-> handle_admin_query(c.name, c.rtype).kind,
        code |-> RC_NoError, answers |-> handle_admin_query(c.name, c.rtype).records,
        id |-> c.id, qr |-> "Response"]
  ELSE [sent |-> FALSE, class |-> "Resolve", kind |-> "None", code |-> RC_NoError,
        answers |-> <<>>, id |-> c.id, qr |-> "Response"]

\* handle_request without the administrative branch: every accepted question
\* goes to the resolver
handle_request_admin_resolved(c) ==
  IF c.malformed
  THEN [sent |-> TRUE, class |-> "Malformed", kind |-> "None", code |-> RC_FormErr,
        answers |-> <<>>, id |-> 0, qr |-> "Query"]
  ELSE IF ~should_handle(c.name)
  THEN [sent |-> TRUE, class |-> "Refuse", kind |-> "None", code |-> RC_NXDomain,
        answers |-> <<>>, id |-> c.id, qr |-> "Response"]
  ELSE [sent |-> FALSE, class |-> "Resolve", kind |-> "None", code |-> RC_NoError,
        answers |-> <<>>, id |-> c.id, qr |-> "Response"]

\* MdnsDnsHandler::handle_request up to the call of resolver.query: the
\* response it sends itself, or none when it calls the resolver
handle_request(c) ==
  IF c.malformed
  THEN [sent |-> TRUE, class |-> "Malformed", kind |-> "None", code |-> RC_FormErr,
        answers |-> <<>>, id |-> 0, qr |-> "Query"]
  ELSE IF ~should_handle(c.name)
  THEN [sent |-> TRUE, class |-> "Refuse", kind |-> "None", code |-> RC_NXDomain,
        answers |-> <<>>, id |-> c.id, qr |-> "Response"]
  ELSE IF handle_admin_query(c.name, c.rtype).some
  THEN [sent |-> TRUE, class |-> "Admin", kind |-> handle_admin_query(c.name, c.rtype).kind,
        code |-> RC_NoError, answers |-> handle_admin_query(c.name, c.rtype).records,
        id |-> c.id, qr |-> "Response"]
  ELSE [sent |-> FALSE, class |-> "Resolve", kind |-> "None", code |-> RC_NoError,
        answers |-> <<>>, id |-> c.id, qr |-> "Response"]

HandleStep(c, h, started) ==
  IF h.sent
  THEN Respond(c, [NewTrace(h.class) EXCEPT !.kind = h.kind], h.code, h.answers, h.id, h.qr)
  ELSE QueryBegin(c, "Resolve", query_begin(cache, now, c.name, c.rtype, started))

\* MdnsDnsHandler::handle_request, from the arrival of the request to the
\* sending of the response or the first suspension inside resolver.query
HandleRequest ==
  /\ pc = "idle"
  /\ nreq < MaxRequests
  /\ nreq' = nreq + 1
  /\ now' = now
  /\ \E q \in HandlerQuestions, id \in RequestIds, malformed \in BOOLEAN, started \in BOOLEAN :
       HandleStep(Request(q, id, malformed), handle_request(Request(q, id, malformed)), started)
  /\ UNCHANGED standalone

\* a direct call of MdnsResolver::query (as the integration tests make)
DirectCall(q) ==
  [via |-> "direct", name |-> NameOf(q[1]), rtype |-> q[2], id |-> 0, malformed |-> FALSE,
   src |-> NoClient]

DirectQuery ==
  /\ pc = "idle"
  /\ nreq < MaxRequests
  /\ nreq' = nreq + 1
  /\ now' = now
  /\ \E q \in DirectQuestions, started \in BOOLEAN :
       QueryBegin(DirectCall(q), "Direct",
                  query_begin(cache, now, NameOf(q[1]), q[2], started))
  /\ UNCHANGED standalone

\* the deadline check never breaking the loop
deadline_never_passed(b, clock) == FALSE

\* start.elapsed() > timeout_duration at the head of the browse loop
deadline_passed(b, clock) == clock - b.start > service_query_timeout

\* the browse loops of query_ptr / query_srv / query_txt: the deadline check
\* at the head of the loop
BrowseDeadline ==
  /\ pc = "browse"
  /\ deadline_passed(br, now)
  /\ UNCHANGED <<now, nreq>>
  /\ Apply(call, trace, O_Finish(TRUE, br.records))
  /\ UNCHANGED standalone

\* timeout(poll_interval, recv_async()) elapsed without an event: continue
BrowsePollTimeout ==
  /\ pc = "browse"
  /\ ~deadline_passed(br, now)
  /\ now + service_poll_interval <= MaxTime
  /\ now' = now + service_poll_interval
  /\ trace' = [trace EXCEPT !.polls = @ + 1]
  /\ UNCHANGED <<cache, pc, call, br, result, response, nreq>>
  /\ UNCHANGED standalone

\* recv_async() failed: break
BrowseRecvError ==
  /\ pc = "browse"
  /\ ~deadline_passed(br, now)
  /\ UNCHANGED <<now, nreq>>
  /\ Apply(call, [trace EXCEPT !.transport_errors = @ + 1], O_Finish(TRUE, br.records))
  /\ UNCHANGED standalone

\* an event arrived within the poll interval
BrowseEvent ==
  /\ pc = "browse"
  /\ ~deadline_passed(br, now)
  /\ br.events < MaxEvents
  /\ UNCHANGED <<now, nreq>>
  /\ \E ev \in ServiceEvents(br.service_type) : Apply(call, trace, browse_event(br, ev))
  /\ UNCHANGED standalone

\* an AddressesFound or AddressesRemoved event arrived
ResolveEvent ==
  /\ pc = "resolve"
  /\ br.events < MaxEvents
  /\ UNCHANGED <<now, nreq, cache, pc, call, result, response, trace>>
  /\ \E addrs \in AddressLists(br.service_name), found \in BOOLEAN :
       LET hostname == NameOf(br.service_name)
           removed(r) == \A i \in 1..Len(addrs) : r.rdata.addr # addrs[i]
       IN br' = [br EXCEPT
                   !.events = @ + 1,
                   !.records = IF found THEN @ \o address_records_of(hostname, addrs)
                               ELSE SelectSeq(@, removed)]
  /\ UNCHANGED standalone

\* SearchStopped, a transport error (elapsed = 0) or SearchTimeout at the
\* deadline ends the loop; the records are sorted and deduplicated
ResolveEnd ==
  /\ pc = "resolve"
  /\ \E elapsed \in {0, hostname_resolution_timeout} :
       /\ now + elapsed <= MaxTime
       /\ now' = now + elapsed
  /\ Apply(call, trace, O_Finish(TRUE, DedupByRData(SortByRData(br.records))))
  /\ UNCHANGED nreq
  /\ UNCHANGED standalone

\* time passes between requests
Tick ==
  /\ pc = "idle"
  /\ now < MaxTime
  /\ now' = now + 1
  /\ UNCHANGED <<cache, pc, call, br, result, response, trace, nreq>>
  /\ UNCHANGED standalone

Next ==
  \/ HandleRequest
  \/ DirectQuery
  \/ BrowseDeadline
  \/ BrowsePollTimeout
  \/ BrowseRecvError
  \/ BrowseEvent
  \/ ResolveEvent
  \/ ResolveEnd
  \/ Tick

Spec == Init /\ [][Next]_vars

\* the step of BrowseDeadline, told by its guard and by its leaving the loop
BreakAtDeadline == pc = "browse" /\ deadline_passed(br, now) /\ pc' = "idle"

\* the tokio timer behind timeout(poll_interval, ..) always fires, and the
\* task is polled again once it has: a wait that can elapse does elapse, and
\* the deadline check that follows it is made and breaks the loop
SpecLive ==
  Init /\ [][Next]_vars /\ WF_vars(BrowsePollTimeout) /\ WF_pc(BreakAtDeadline)

\* ------------------------------------------------------------------------
\* A Cache used on its own, as the unit tests of mdns_resolver/tests.rs do:
\* Cache::new(ttl), then insert and get in any order while time passes
\* ------------------------------------------------------------------------
MaxCacheOps == 4
MaxCacheTime == 3

\* Cache::new is given any Duration from zero to MaxCacheTtl
MaxCacheTtl == 2
CacheKeys == {<<N_printer_D, RT_A>>, <<N_printer_D, RT_AAAA>>, <<N_test_local, RT_A>>}
CacheLists ==
  {<<>>,
   address_records_of(NameOf(N_printer_D), <<Addr_global4>>),
   address_records_of(NameOf(N_printer_D), <<Addr_linklocal4, Addr_global4>>)}

\* tcache.last remembers, per (name, type), the list last given to insert,
\* the instant of that insert and the number of inserts under the key;
\* tcache.got is the last get, its answer and what was last inserted under
\* its key when it was made
LastInserted(k) ==
  IF k \in DOMAIN tcache.last THEN tcache.last[k]
  ELSE [some |-> FALSE, records |-> <<>>, at |-> 0, n |-> 0]

CacheNew ==
  /\ tcache = NoTestCache
  /\ tcache.ops = 0
  /\ \E ttl \in 0..MaxCacheTtl : tcache' = [NoTestCache EXCEPT !.ttl = ttl, !.ops = 1]
  /\ UNCHANGED <<server, rw, unit>>

CacheInsert ==
  /\ tcache.ops \in 1..MaxCacheOps
  /\ \E k \in CacheKeys, records \in CacheLists :
       tcache' = [tcache EXCEPT
                    !.data = Cache_insert(tcache.data, tcache.ttl, tcache.clock,
                                          k[1], k[2], records),
                    !.last = [j \in DOMAIN tcache.last \cup {k} |->
                                IF j = k THEN [some |-> TRUE, records |-> records,
                                               at |-> tcache.clock,
                                               n |-> LastInserted(k).n + 1]
                                ELSE tcache.last[j]],
                    !.ops = @ + 1]
  /\ UNCHANGED <<server, rw, unit>>

CacheGet ==
  /\ tcache.ops \in 1..MaxCacheOps
  /\ \E k \in CacheKeys :
       tcache' = [tcache EXCEPT
                    !.got = [valid |-> TRUE, key |-> k, at |-> tcache.clock,
                             last |-> LastInserted(k),
                             answer |-> Cache_get(tcache.data, tcache.ttl, tcache.clock,
                                                  k[1], k[2])],
                    !.ops = @ + 1]
  /\ UNCHANGED <<server, rw, unit>>

\* time passes between two calls (tokio::time::sleep in the tests)
CacheSleep ==
  /\ tcache.ops >= 1
  /\ tcache.clock < MaxCacheTime
  /\ tcache' = [tcache EXCEPT !.clock = @ + 1]
  /\ UNCHANGED <<server, rw, unit>>

CacheNext ==
  \/ CacheNew
  \/ CacheInsert
  \/ CacheGet
  \/ CacheSleep

SpecCache == Init /\ [][CacheNext]_vars

\* ------------------------------------------------------------------------
\* Threads sharing one Cache (Arc<Cache>), as test_concurrent_cache_access
\* does: each call of get or insert takes the RwLock of the map, works on
\* the map and drops the guard when it returns
\* ------------------------------------------------------------------------
MaxRwOps == 3
MaxRwTime == 2
RwUnchanged == UNCHANGED <<server, tcache, unit>>

\* Cache::get, self.data.read(): rw.committed is the map as the last insert
\* that returned left it
GetAcquire ==
  /\ rw.ops < MaxRwOps
  /\ RwLock_read_ready(rw)
  /\ \E t \in Threads, k \in CacheKeys :
       /\ rw.th[t].pc = "idle"
       /\ rw' = [rw EXCEPT !.readers = @ \cup {t}, !.ops = @ + 1,
                           !.th[t] = [NoThread EXCEPT !.pc = "get", !.key = k]]
  /\ RwUnchanged

\* Cache::get, cache.get(&cache_key) and the clone of the records
GetRead ==
  /\ \E t \in Threads :
       /\ rw.th[t].pc = "get"
       /\ rw' = [rw EXCEPT !.th[t].pc = "got",
                           !.th[t].seen = rw.data,
                           !.th[t].base = rw.committed,
                           !.th[t].records =
                              Cache_get(rw.data, cache_ttl, rw.clock,
                                        rw.th[t].key[1], rw.th[t].key[2]).records]
  /\ RwUnchanged

\* Cache::get returns: the read guard is dropped
GetRelease ==
  /\ \E t \in Threads :
       /\ rw.th[t].pc = "got"
       /\ rw' = [rw EXCEPT !.readers = @ \ {t}, !.th[t].pc = "idle"]
  /\ RwUnchanged

\* Cache::insert, self.data.write()
InsertAcquire ==
  /\ rw.ops < MaxRwOps
  /\ RwLock_write_ready(rw)
  /\ \E t \in Threads, k \in CacheKeys, records \in CacheLists :
       /\ rw.th[t].pc = "idle"
       /\ rw' = [rw EXCEPT !.writer = t, !.ops = @ + 1,
                           !.th[t] = [NoThread EXCEPT !.pc = "insert", !.key = k,
                                                      !.records = records]]
  /\ RwUnchanged

\* Cache::insert, cache.insert(cache_key, entry)
InsertStore ==
  /\ \E t \in Threads :
       /\ rw.th[t].pc = "insert"
       /\ rw' = [rw EXCEPT !.th[t].pc = "stored",
                           !.data = Cache_store(rw.data, rw.clock, rw.th[t].key[1],
                                                rw.th[t].key[2], rw.th[t].records)]
  /\ RwUnchanged

\* Cache::insert, cache.retain(..), and its return: the write guard is dropped
InsertRetain ==
  /\ \E t \in Threads :
       /\ rw.th[t].pc = "stored"
       /\ rw' = [rw EXCEPT !.th[t].pc = "idle",
                           !.writer = 0,
                           !.data = Cache_retain(rw.data, cache_ttl, rw.clock),
                           !.committed = Cache_retain(rw.data, cache_ttl, rw.clock)]
  /\ RwUnchanged

\* time passes while the threads run
RwSleep ==
  /\ rw.clock < MaxRwTime
  /\ rw' = [rw EXCEPT !.clock = @ + 1]
  /\ RwUnchanged

RwNext ==
  \/ GetAcquire
  \/ GetRead
  \/ GetRelease
  \/ InsertAcquire
  \/ InsertStore
  \/ InsertRetain
  \/ RwSleep

SpecRw == Init /\ [][RwNext]_vars

\* ------------------------------------------------------------------------
\* config.rs: Config::load(args), called on its own as its unit tests do
\* ------------------------------------------------------------------------
\* str::trim, for the space character
RECURSIVE trim(_)
trim(s) ==
  IF Len(s) > 0 /\ s[1] = " " THEN trim(Tail(s))
  ELSE IF Len(s) > 0 /\ s[Len(s)] = " " THEN trim(SubSeq(s, 1, Len(s) - 1))
  ELSE s

\* str::trim_start_matches('.')
RECURSIVE trim_start_dots(_)
trim_start_dots(s) ==
  IF Len(s) > 0 /\ s[1] = "." THEN trim_start_dots(Tail(s)) ELSE s

\* normalize_domain
normalize_domain(domain) ==
  LET d == to_lowercase(trim_end_dots(trim(domain)))
  IN (IF starts_with(d, Dot) THEN trim_start_dots(d) ELSE d) \o Dot

\* Config::default()
Config_default ==
  [bind_address |-> IPv4(127, 0, 0, 1), port |-> 5335, tcp_timeout |-> 30,
   discovery_domain |-> default_discovery_domain,
   ttl_seconds |-> 120, enabled |-> TRUE, level |-> <<"i","n","f","o">>,
   service_query_timeout_ms |-> 2000, service_poll_interval_ms |-> 500,
   hostname_resolution_timeout_ms |-> 1500]

\* the Config that toml::from_str gives for a file setting every field
Config_file ==
  [bind_address |-> IPv4(192, 168, 1, 1), port |-> 5353, tcp_timeout |-> 60,
   discovery_domain |-> <<" ",".","L","a","n",".","E","x",".","."," ">>,
   ttl_seconds |-> 60, enabled |-> FALSE, level |-> <<"w","a","r","n">>,
   service_query_timeout_ms |-> 700, service_poll_interval_ms |-> 50,
   hostname_resolution_timeout_ms |-> 900]

\* Option<T>
None == [some |-> FALSE]
Some(v) == [some |-> TRUE, val |-> v]

\* std::fs::read_to_string(path) and toml::from_str: a file that loads, and
\* a path that cannot be read
read_config(path) ==
  IF path = "good.toml" THEN [ok |-> TRUE, config |-> Config_file]
  ELSE [ok |-> FALSE, config |-> Config_default]

\* the command lines: Args as clap parses them
ArgsSet ==
  [config : {None, Some("good.toml"), Some("missing.toml")},
   bind_address : {None, Some(IPv4(0, 0, 0, 0))},
   port : {None, Some(53)},
   cache_ttl : {None, Some(0)},
   no_cache : BOOLEAN,
   log_level : {None, Some(<<"D","e","b","u","g">>)},
   service_query_timeout : {None, Some(100)},
   hostname_resolution_timeout : {None, Some(100)},
   discovery_domain : {None, Some(<<"C","u","s","t","o","m",".","D","o","m">>)}]

\* the field of base, or the value of the flag when it is given
override(flag, base) == IF flag.some THEN flag.val ELSE base

\* Config::load: the file or the defaults, with the discovery domain
\* normalized
load_base(args) ==
  LET config == IF args.config.some THEN read_config(args.config.val).config
                ELSE Config_default
  IN [config EXCEPT !.discovery_domain = normalize_domain(@)]

\* Config::load(args): Result<Config>
Config_load(args) ==
  IF args.config.some /\ ~read_config(args.config.val).ok
  THEN [ok |-> FALSE, config |-> Config_default]
  ELSE [ok |-> TRUE,
        config |->
          [load_base(args) EXCEPT
             !.bind_address = override(args.bind_address, @),
             !.port = override(args.port, @),
             !.ttl_seconds = override(args.cache_ttl, @),
             !.enabled = IF args.no_cache THEN FALSE ELSE @,
             !.level = override(args.log_level, @),
             !.hostname_resolution_timeout_ms =
                override(args.hostname_resolution_timeout, @),
             !.discovery_domain =
                IF args.discovery_domain.some
                THEN normalize_domain(args.discovery_domain.val) ELSE @]]

\* a command line is about to be loaded
ConfigInit ==
  /\ ServerInit
  /\ unit \in [fn : {"Config::load"}, args : ArgsSet, done : {FALSE},
              out : {[ok |-> FALSE, config |-> Config_default]}]

ConfigLoad ==
  /\ unit.fn = "Config::load"
  /\ ~unit.done
  /\ unit' = [unit EXCEPT !.done = TRUE, !.out = Config_load(unit.args)]
  /\ UNCHANGED <<server, tcache, rw>>

SpecConfig == ConfigInit /\ [][ConfigLoad]_vars

\* main.rs: the server started with --no-cache. main loads the Config and
\* hands it to MdnsResolver::new, which reads config.cache_ttl() only
Args_none ==
  [config |-> None, bind_address |-> None, port |-> None, cache_ttl |-> None,
   no_cache |-> FALSE, log_level |-> None, service_query_timeout |-> None,
   hostname_resolution_timeout |-> None, discovery_domain |-> None]

main(args) == [fn |-> "main", config |-> Config_load(args).config]

InitNoCache == ServerInit /\ unit = main([Args_none EXCEPT !.no_cache = TRUE])

SpecNoCache == InitNoCache /\ [][Next]_vars

\* ------------------------------------------------------------------------
\* resolver.rs: the two name mappings applied one after the other
\* ------------------------------------------------------------------------
\* what stands before the last label of the names tried, and the spellings
\* of that last label
RoundTripPrefixes ==
  {<<>>, L_printer \o Dot, <<"P","r","i","n","t","e","r",".">>,
   L_http \o Dot \o L_tcp \o Dot, L_web \o Dot \o L_http \o Dot \o L_tcp \o Dot,
   L_nas \o Dot \o L_printer \o Dot, L_local \o Dot, <<"x">>}

RoundTripNames ==
  {NameOf(p \o l) : p \in RoundTripPrefixes,
                    l \in {STR_local, <<"L","O","C","A","L",".">>, L_local}}
    \cup {NameOf(N_example_com), NameOf(N_printer_D)}

\* discovery domains as Config::load leaves them
RoundTripDomains ==
  {default_discovery_domain, normalize_domain(<<"L","a","n">>), normalize_domain(L_local)}

RoundTripInit ==
  /\ ServerInit
  /\ unit \in [fn : {"round_trip"}, pc : {"name"}, n : RoundTripNames,
              dd : RoundTripDomains, mid : {Name_from_utf8(Dot)},
              out : {Name_from_utf8(Dot)}]

\* rewrite_name_to_discovery(&n, dd)
RoundTripRewrite ==
  /\ unit.fn = "round_trip" /\ unit.pc = "name"
  /\ unit' = [unit EXCEPT !.pc = "rewritten",
                          !.mid = rewrite_name_to_discovery(unit.n, unit.dd)]
  /\ UNCHANGED <<server, tcache, rw>>

\* map_query_to_local(&rewritten, dd)
RoundTripMap ==
  /\ unit.fn = "round_trip" /\ unit.pc = "rewritten" /\ unit.mid.ok
  /\ unit' = [unit EXCEPT !.pc = "mapped",
                          !.out = map_query_to_local(Unwrap(unit.mid), unit.dd)]
  /\ UNCHANGED <<server, tcache, rw>>

RoundTripNext == RoundTripRewrite \/ RoundTripMap

SpecRoundTrip == RoundTripInit /\ [][RoundTripNext]_vars

\* ------------------------------------------------------------------------
\* query.rs: one SRV or TXT question against one ServiceResolved event
\* ------------------------------------------------------------------------
\* an instance advertised with an upper-case letter in its instance label
Info_Office ==
  [fullname |-> <<"O","f","f","i","c","e",".">> \o L_http \o Dot \o L_tcp \o Dot \o STR_local,
   hostname |-> L_printer \o Dot \o STR_local,
   port |-> 631,
   properties |-> << [key |-> <<"k">>, val |-> <<"v">>] >>,
   addresses |-> <<Addr_global4>>]

MatchInfos == {Info_web, Info_nas, Info_Office}

\* instance names under the discovery domain, in several letter cases
MatchNames ==
  {i \o t \o D :
     i \in {L_web \o Dot, <<"W","E","B",".">>, L_nas \o Dot, <<"N","a","s",".">>,
            <<"o","f","f","i","c","e",".">>, <<"O","f","f","i","c","e",".">>,
            <<"O","F","F","I","C","E",".">>},
     t \in {L_http \o Dot \o L_tcp \o Dot, <<"_","H","t","t","p",".","_","T","C","P",".">>}}

\* the name MdnsResolver::query receives: as the caller wrote it, or
\* lower-cased by the server library
MatchQuestionNames == {NameOf(n) : n \in MatchNames} \cup {LowerName(NameOf(n)) : n \in MatchNames}

MatchInit ==
  /\ ServerInit
  /\ unit \in [fn : {"match"}, pc : {"question"}, name : MatchQuestionNames,
              rtype : {RT_SRV, RT_TXT}, info : MatchInfos,
              b : {O_Finish(TRUE, <<>>)}, o : {O_Finish(TRUE, <<>>)}]

\* MdnsResolver::query, on a cache miss, up to the wait for the first event
MatchBegin ==
  /\ unit.fn = "match" /\ unit.pc = "question"
  /\ unit' = [unit EXCEPT !.pc = "browse",
                          !.b = query_begin(cache, now, unit.name, unit.rtype, TRUE)]
  /\ UNCHANGED <<server, tcache, rw>>

\* the browse receives ServiceResolved(info), an instance of its type
MatchEvent ==
  /\ unit.fn = "match" /\ unit.pc = "browse" /\ unit.b.tag = "suspend"
  /\ join(Tail(split(unit.info.fullname))) = unit.b.service_type
  /\ unit' = [unit EXCEPT !.pc = "event",
                          !.o = browse_event(unit.b, [type |-> "ServiceResolved",
                                                      info |-> unit.info])]
  /\ UNCHANGED <<server, tcache, rw>>

MatchNext == MatchBegin \/ MatchEvent

SpecMatch == MatchInit /\ [][MatchNext]_vars

\* ------------------------------------------------------------------------
\* query.rs: resolve_hostname_to_ipv4, called on its own
\* ------------------------------------------------------------------------
MaxDiscoveryTime == 1

\* resolve_hostname_to_ipv4: the wait for one event
hostname_poll_interval == 1

\* discover_service_types: the list used when the meta-query found no type
fallback_service_types ==
  << <<"_","h","t","t","p",".">> \o L_tcp \o Dot \o STR_local,
     <<"_","h","t","t","p","s",".">> \o L_tcp \o Dot \o STR_local,
     <<"_","s","s","h",".">> \o L_tcp \o Dot \o STR_local,
     <<"_","s","f","t","p","-","s","s","h",".">> \o L_tcp \o Dot \o STR_local,
     <<"_","s","m","b",".">> \o L_tcp \o Dot \o STR_local,
     <<"_","a","f","p","o","v","e","r","t","c","p",".">> \o L_tcp \o Dot \o STR_local,
     <<"_","w","o","r","k","s","t","a","t","i","o","n",".">> \o L_tcp \o Dot \o STR_local,
     <<"_","d","e","v","i","c","e","-","i","n","f","o",".">> \o L_tcp \o Dot \o STR_local,
     <<"_","c","o","m","p","a","n","i","o","n","-","l","i","n","k",".">> \o L_tcp \o Dot \o STR_local,
     <<"_","a","i","r","p","l","a","y",".">> \o L_tcp \o Dot \o STR_local,
     <<"_","r","a","o","p",".">> \o L_tcp \o Dot \o STR_local,
     <<"_","h","o","m","e","k","i","t",".">> \o L_tcp \o Dot \o STR_local >>

\* what the meta-query may have found: nothing, or the type on the link
DiscoveredTypeLists == {<<>>, <<L_http \o Dot \o L_tcp \o Dot \o STR_local>>}

\* discover_service_types, after it spent d in its own loop
discover_service_types(found) == IF found = <<>> THEN fallback_service_types ELSE found

\* the hostnames asked for: two advertised ones and one nobody has
Ipv4Hostnames ==
  {Info_web.hostname, Info_nas.hostname, <<"g","h","o","s","t",".">> \o STR_local}

\* resolve_hostname_to_ipv4, ServiceResolved arm: the A records of the
\* event when its hostname is the one asked for
ipv4_records(hostname, info) ==
  IF info.hostname = hostname \/ trim_end_dots(info.hostname) = trim_end_dots(hostname)
  THEN LET is_v4(a) == a.v = 4
       IN address_records_of(NameOf(hostname), SelectSeq(info.addresses, is_v4))
  ELSE <<>>

Ipv4Init ==
  /\ ServerInit
  /\ unit \in [fn : {"resolve_hostname_to_ipv4"}, pc : {"discover"},
              hostname : Ipv4Hostnames, types : {<<>>}, i : {0}, start : {0},
              clock : {0}, began : {0}, discovery : {0}, events : {0},
              out : {<<>>}]

Ipv4Unchanged == UNCHANGED <<server, tcache, rw>>

\* discover_service_types returns after d
Ipv4Discover ==
  /\ unit.fn = "resolve_hostname_to_ipv4" /\ unit.pc = "discover"
  /\ \E found \in DiscoveredTypeLists, d \in 0..MaxDiscoveryTime :
       unit' = [unit EXCEPT !.pc = "start", !.types = discover_service_types(found),
                            !.i = 1, !.clock = @ + d, !.discovery = d]
  /\ Ipv4Unchanged

\* the head of the for loop: daemon.browse(service_type) of the next type,
\* which is skipped when the browse cannot be started
Ipv4Start ==
  /\ unit.fn = "resolve_hostname_to_ipv4" /\ unit.pc = "start"
  /\ IF unit.i > Len(unit.types)
     THEN unit' = [unit EXCEPT !.pc = "done", !.out = <<>>]
     ELSE \E started \in BOOLEAN :
            unit' = IF started
                    THEN [unit EXCEPT !.pc = "browse", !.start = unit.clock, !.events = 0]
                    ELSE [unit EXCEPT !.i = @ + 1]
  /\ Ipv4Unchanged

\* start.elapsed() > timeout_duration: break, on to the next type
Ipv4Deadline ==
  /\ unit.fn = "resolve_hostname_to_ipv4" /\ unit.pc = "browse"
  /\ unit.clock - unit.start > hostname_resolution_timeout
  /\ unit' = [unit EXCEPT !.pc = "start", !.i = @ + 1]
  /\ Ipv4Unchanged

\* the wait for an event elapsed: continue
Ipv4PollTimeout ==
  /\ unit.fn = "resolve_hostname_to_ipv4" /\ unit.pc = "browse"
  /\ ~(unit.clock - unit.start > hostname_resolution_timeout)
  /\ unit' = [unit EXCEPT !.clock = @ + hostname_poll_interval]
  /\ Ipv4Unchanged

\* an event arrived: return the A records of a matching instance, continue
\* on anything else
Ipv4Event ==
  /\ unit.fn = "resolve_hostname_to_ipv4" /\ unit.pc = "browse"
  /\ ~(unit.clock - unit.start > hostname_resolution_timeout)
  /\ unit.events < MaxEvents
  /\ \E ev \in ServiceEvents(unit.types[unit.i]) :
       unit' = IF ev.type = "ServiceResolved" /\ ipv4_records(unit.hostname, ev.info) # <<>>
               THEN [unit EXCEPT !.pc = "done", !.out = ipv4_records(unit.hostname, ev.info)]
               ELSE [unit EXCEPT !.events = @ + 1]
  /\ Ipv4Unchanged

Ipv4Next == Ipv4Discover \/ Ipv4Start \/ Ipv4Deadline \/ Ipv4PollTimeout \/ Ipv4Event

SpecIpv4 == Ipv4Init /\ [][Ipv4Next]_vars

\* ------------------------------------------------------------------------
\* resolver.rs: two tasks inside MdnsResolver::query for the same question,
\* sharing the resolver's cache (the server spawns one task per request)
\* ------------------------------------------------------------------------
MaxConcTime == 2
Tasks == {1, 2}
ConcQuestions == {<<N_http_D, RT_PTR>>, <<N_web_http_D, RT_SRV>>}

NoTask == [pc |-> "new", b |-> NoBrowse, missed |-> FALSE, ok |-> FALSE, records |-> <<>>,
           at |-> 0]

ConcInit ==
  /\ ServerInit
  /\ unit \in [fn : {"concurrent"}, q : ConcQuestions, data : {cache}, clock : {0},
              task : {[t \in Tasks |-> NoTask]}, browses : {0}, inserts : {0},
              last : {<<>>}]

ConcUnchanged == UNCHANGED <<server, tcache, rw>>

\* the call of task t returns f.records and leaves the cache as f.data
ConcReturn(t, f) ==
  unit' = [unit EXCEPT !.task[t].pc = "done", !.task[t].ok = f.ok,
                       !.task[t].records = f.records, !.task[t].at = unit.clock,
                       !.data = f.data,
                       !.inserts = @ + f.inserts,
                       !.last = IF f.inserts > 0 THEN f.records ELSE @]

\* the step of task t that came to o
ConcApply(t, o) ==
  CASE o.tag = "suspend" ->
         unit' = [unit EXCEPT !.task[t].pc = "browse", !.task[t].missed = TRUE,
                              !.task[t].b = [kind |-> o.kind, service_name |-> o.service_name,
                                             service_type |-> o.service_type,
                                             records |-> <<>>, start |-> unit.clock,
                                             events |-> 0],
                              !.browses = @ + 1]
    [] o.tag = "continue" ->
         unit' = [unit EXCEPT !.task[t].b.records = o.records, !.task[t].b.events = @ + 1]
    [] o.tag = "finish" /\ o.ok ->
         ConcReturn(t, query_finish(unit.data, unit.clock, Name_to_utf8(NameOf(unit.q[1])),
                                    unit.q[2], o.records))
    [] OTHER ->
         ConcReturn(t, [ok |-> o.ok, records |-> o.records, data |-> unit.data, inserts |-> 0])

\* task t enters MdnsResolver::query: cache.get, then the dispatch
ConcBegin ==
  /\ unit.fn = "concurrent"
  /\ \E t \in Tasks :
       /\ unit.task[t].pc = "new"
       /\ ConcApply(t, query_begin(unit.data, unit.clock, NameOf(unit.q[1]), unit.q[2], TRUE))
  /\ ConcUnchanged

\* the browse of task t receives an event
ConcEvent ==
  /\ unit.fn = "concurrent"
  /\ \E t \in Tasks :
       /\ unit.task[t].pc = "browse"
       /\ ~deadline_passed(unit.task[t].b, unit.clock)
       /\ unit.task[t].b.events < MaxEvents
       /\ \E ev \in ServiceEvents(unit.task[t].b.service_type) :
            ConcApply(t, browse_event(unit.task[t].b, ev))
  /\ ConcUnchanged

\* the browse of task t is past its deadline: break
ConcDeadline ==
  /\ unit.fn = "concurrent"
  /\ \E t \in Tasks :
       /\ unit.task[t].pc = "browse"
       /\ deadline_passed(unit.task[t].b, unit.clock)
       /\ ConcApply(t, O_Finish(TRUE, unit.task[t].b.records))
  /\ ConcUnchanged

\* time passes while the tasks wait
ConcTick ==
  /\ unit.fn = "concurrent"
  /\ unit.clock < MaxConcTime
  /\ unit' = [unit EXCEPT !.clock = @ + 1]
  /\ ConcUnchanged

ConcNext == ConcBegin \/ ConcEvent \/ ConcDeadline \/ ConcTick

SpecConc == ConcInit /\ [][ConcNext]_vars

\* ------------------------------------------------------------------------
\* query.rs: one browse loop of query_ptr / query_srv / query_txt with the
\* events it received kept in arrival order
\* ------------------------------------------------------------------------
MaxLoopEvents == 3
MaxLoopTime == 2
N_nas_http_D == L_nas \o Dot \o L_http \o Dot \o L_tcp \o Dot \o D
LoopQuestions ==
  ({N_web_http_D, N_nas_http_D} \X {RT_SRV, RT_TXT}) \cup ({N_http_D} \X {RT_PTR})

\* an instance whose name holds a space, as instance names on the link do
Info_my_web ==
  [fullname |-> <<"m","y"," ","w","e","b",".">> \o L_http \o Dot \o L_tcp \o Dot \o STR_local,
   hostname |-> L_printer \o Dot \o STR_local,
   port |-> 8000,
   properties |-> <<>>,
   addresses |-> <<Addr_global4>>]

\* the events the loop may receive: those of the link, and the resolution
\* of the instance with the space
LoopEvents(service_type) ==
  ServiceEvents(service_type) \cup
    [type : {"ServiceResolved"},
     info : {i \in {Info_my_web} : join(Tail(split(i.fullname))) = service_type}]

LoopInit ==
  /\ ServerInit
  /\ unit \in [fn : {"loop"}, q : LoopQuestions, pc : {"new"}, b : {NoBrowse},
              evs : {<<>>}, o : {O_Continue(<<>>)}, clock : {0}, polls : {0},
              ended_by : {"none"}]

LoopUnchanged == UNCHANGED <<server, tcache, rw>>

\* the loop took a step that came to o
LoopStep(o, evs, by) ==
  unit' = [unit EXCEPT !.o = o, !.evs = evs,
                       !.pc = IF o.tag = "continue" THEN "browse" ELSE "done",
                       !.b.records = IF o.tag = "continue" THEN o.records ELSE @,
                       !.ended_by = IF o.tag = "continue" THEN @ ELSE by]

\* the routine is entered: the name is mapped and the browse started
LoopBegin ==
  /\ unit.fn = "loop" /\ unit.pc = "new"
  /\ LET o == query_begin(cache, 0, NameOf(unit.q[1]), unit.q[2], TRUE)
     IN /\ o.tag = "suspend"
        /\ unit' = [unit EXCEPT !.pc = "browse",
                                 !.b = [kind |-> o.kind, service_name |-> o.service_name,
                                        service_type |-> o.service_type, records |-> <<>>,
                                        start |-> 0, events |-> 0]]
  /\ LoopUnchanged

\* Ok(Ok(event))
LoopEvent ==
  /\ unit.fn = "loop" /\ unit.pc = "browse"
  /\ ~deadline_passed(unit.b, unit.clock)
  /\ Len(unit.evs) < MaxLoopEvents
  /\ \E ev \in LoopEvents(unit.b.service_type) :
       LoopStep(browse_event(unit.b, ev), Append(unit.evs, ev), "event")
  /\ LoopUnchanged

\* Ok(Err(_)): the receiver failed
LoopRecvError ==
  /\ unit.fn = "loop" /\ unit.pc = "browse"
  /\ ~deadline_passed(unit.b, unit.clock)
  /\ LoopStep(O_Finish(TRUE, unit.b.records), unit.evs, "error")
  /\ LoopUnchanged

\* Err(_): the poll interval elapsed with no event; continue
LoopPollTimeout ==
  /\ unit.fn = "loop" /\ unit.pc = "browse"
  /\ ~deadline_passed(unit.b, unit.clock)
  /\ unit.clock < MaxLoopTime
  /\ unit' = [unit EXCEPT !.clock = @ + service_poll_interval, !.polls = @ + 1]
  /\ LoopUnchanged

\* start.elapsed() > timeout_duration at the head of the loop: break
LoopDeadline ==
  /\ unit.fn = "loop" /\ unit.pc = "browse"
  /\ deadline_passed(unit.b, unit.clock)
  /\ LoopStep(O_Finish(TRUE, unit.b.records), unit.evs, "deadline")
  /\ LoopUnchanged

LoopNext == LoopBegin \/ LoopEvent \/ LoopRecvError \/ LoopPollTimeout \/ LoopDeadline

SpecLoop == LoopInit /\ [][LoopNext]_vars

\* ------------------------------------------------------------------------
\* admin_records.rs: filter_suppressed_records applied to answers and
\* clients of every kind
\* ------------------------------------------------------------------------
MaxFilterLen == 3

Client_loopback4 == IPv4(127, 0, 0, 1)
Client_loopback6 == IPv6(0, 0, 1)
Client_private == IPv4(192, 168, 1, 9)
Client_linklocal4 == IPv4(169, 254, 1, 9)
Client_linklocal6 == IPv6(254, 128, 9)
Client_ula == IPv6(253, 0, 9)
FilterClients ==
  {NoClient, Client_loopback4, Client_loopback6, Client_remote, Client_private,
   Client_linklocal4, Client_linklocal6, Client_ula}

Addr_private4 == IPv4(192, 168, 1, 5)
Addr_ula == IPv6(253, 0, 1)
Addr_global6 == IPv6(32, 1, 1)

\* the records of an answer: addresses of every range for two hosts, SRV
\* records naming them, and a record of another type
FilterRecords ==
  {Record_from_rdata(NameOf(N_printer_D), 10, RData_A(Addr_linklocal4)),
   Record_from_rdata(NameOf(N_printer_D), 10, RData_A(Addr_private4)),
   Record_from_rdata(NameOf(N_nas_D), 10, RData_A(Addr_global4)),
   Record_from_rdata(NameOf(N_printer_D), 10, RData_AAAA(Addr_linklocal6)),
   Record_from_rdata(NameOf(N_nas_D), 10, RData_AAAA(Addr_ula)),
   Record_from_rdata(NameOf(N_nas_D), 10, RData_AAAA(Addr_global6)),
   Record_from_rdata(NameOf(N_web_http_D), 10, RData_SRV(0, 0, 80, NameOf(N_Printer_D))),
   Record_from_rdata(NameOf(N_web_http_D), 10, RData_SRV(0, 0, 80, NameOf(N_nas_D))),
   Record_from_rdata(NameOf(N_http_D), 10, RData_PTR(NameOf(N_web_http_D)))}

FilterLists ==
  UNION {[1..n -> FilterRecords] : n \in 0..MaxFilterLen}

FilterInit ==
  /\ ServerInit
  /\ unit \in [fn : {"filter"}, pc : {"in"},
              config : [enabled : BOOLEAN, client_ip : FilterClients],
              records : FilterLists, out : {<<>>}]

\* filter_suppressed_records(records, &config)
FilterApply ==
  /\ unit.fn = "filter" /\ unit.pc = "in"
  /\ unit' = [unit EXCEPT !.pc = "out",
                           !.out = filter_suppressed_records(unit.records, unit.config)]
  /\ UNCHANGED <<server, tcache, rw>>

SpecFilter == FilterInit /\ [][FilterApply]_vars

\* ------------------------------------------------------------------------
\* resolver.rs: each name mapper applied on its own to names that end with
\* the characters of a suffix, at a label boundary and inside a label
\* ------------------------------------------------------------------------
BoundaryPrefixes ==
  {<<>>, <<"f","o","o">>, <<"f","o","o",".">>, <<"a",".","f","o","o">>, <<"F","o","o",".">>,
   L_printer \o Dot, L_http \o Dot \o L_tcp \o Dot, <<"x">>}

BoundaryDomains == RoundTripDomains

BoundaryNames ==
  {NameOf(p \o l) : p \in BoundaryPrefixes,
                    l \in BoundaryDomains \cup {STR_local, <<"c","o","m",".">>}}

BoundaryInit ==
  /\ ServerInit
  /\ unit \in [fn : {"boundary"}, pc : {"name"}, n : BoundaryNames, dd : BoundaryDomains,
              mapped : {Name_from_utf8(Dot)}, rewritten : {Name_from_utf8(Dot)}]

\* map_query_to_local(&n, dd) and rewrite_name_to_discovery(&n, dd)
BoundaryApply ==
  /\ unit.fn = "boundary" /\ unit.pc = "name"
  /\ unit' = [unit EXCEPT !.pc = "out",
                           !.mapped = map_query_to_local(unit.n, unit.dd),
                           !.rewritten = rewrite_name_to_discovery(unit.n, unit.dd)]
  /\ UNCHANGED <<server, tcache, rw>>

SpecBoundary == BoundaryInit /\ [][BoundaryApply]_vars

\* ------------------------------------------------------------------------
\* handler.rs / resolver.rs: the same address question put by two clients
\* in turn; the first is answered from the link, the second from the cache
\* ------------------------------------------------------------------------
MaxClientsLen == 2

ClientsClients == {Client_remote, Client_loopback4, Client_private, Client_linklocal6}

\* the address records the link may give for the name asked
ClientsRecords ==
  {Record_from_rdata(NameOf(L_web \o Dot \o L_http \o Dot \o L_tcp \o Dot \o STR_local),
                     MDNS_RECORD_TTL, rd) :
     rd \in {RData_A(Addr_linklocal4), RData_A(Addr_global4), RData_AAAA(Addr_linklocal6),
             RData_AAAA(Addr_ula), RData_AAAA(Addr_global6)}}

ClientsLists == UNION {[1..n -> ClientsRecords] : n \in 0..MaxClientsLen}

ClientsInit ==
  /\ ServerInit
  /\ unit \in [fn : {"clients"}, pc : {"first"}, name : {LowerName(NameOf(N_web_http_D))},
              rtype : {RT_A, RT_AAAA}, mdns : ClientsLists,
              c1 : ClientsClients, c2 : ClientsClients,
              data : {cache}, returned : {<<>>}, ans1 : {<<>>}, ans2 : {<<>>}, hit : {FALSE}]

\* the request of the first client: resolver.query misses the cache,
\* learns unit.mdns from the link, caches and returns; the handler filters
\* and answers
ClientsFirst ==
  /\ unit.fn = "clients" /\ unit.pc = "first"
  /\ LET f == query_finish(unit.data, now, Name_to_utf8(unit.name), unit.rtype, unit.mdns)
     IN unit' = [unit EXCEPT !.pc = "second", !.data = f.data, !.returned = f.records,
                             !.ans1 = resolve_response([ok |-> f.ok, records |-> f.records]).answers]
  /\ UNCHANGED <<server, tcache, rw>>

\* the request of the second client: resolver.query reads the cache
ClientsSecond ==
  /\ unit.fn = "clients" /\ unit.pc = "second"
  /\ LET g == Cache_get(unit.data, cache_ttl, now, Name_to_utf8(unit.name), unit.rtype)
     IN unit' = [unit EXCEPT !.pc = "done", !.hit = g.some,
                             !.ans2 = resolve_response([ok |-> TRUE, records |-> g.records]).answers]
  /\ UNCHANGED <<server, tcache, rw>>

ClientsNext == ClientsFirst \/ ClientsSecond

SpecClients == ClientsInit /\ [][ClientsNext]_vars

\* ------------------------------------------------------------------------
\* Properties
\* ------------------------------------------------------------------------
MaxTtl == 12

\* the last request is a well-formed question put to the handler
Handled == call.via = "handler" /\ ~call.malformed

\* the handler has sent its response to that question
Answered == Handled /\ response.valid

\* the question is neither refused nor answered administratively
Resolve == Handled /\ should_handle(call.name) /\ ~handle_admin_query(call.name, call.rtype).some

\* the question name, lower-cased text
QName == to_lowercase(Name_to_utf8(call.name))

\* the owner name of a record and the names embedded in its rdata
RecordNames(r) == {r.name} \cup EmbeddedNames(r)

EndsInLocal(n) == ends_with(to_lowercase(Name_to_utf8(n)), STR_local)
EndsInDiscovery(n) == ends_with(to_lowercase(Name_to_utf8(n)), to_lowercase(D))

\* C1: every record MdnsResolver::query returns, resolved freshly or served
\* from the cache, has TTL <= 10; so has every record stored in the cache;
\* the cap leaves a TTL that is already <= 10 unchanged (TTL = min(ttl, 10)).
C1_TtlCapped ==
  /\ (result.valid /\ result.ok) =>
       \A i \in 1..Len(result.records) : result.records[i].ttl <= 10
  /\ \A k \in DOMAIN cache :
       \A i \in 1..Len(cache[k].records) : cache[k].records[i].ttl <= 10
  /\ \A t \in 0..MaxTtl :
       cap_ttl(Record_from_rdata(NameOf(D), t, RData_TXT(<<>>))).ttl = IF t <= 10 THEN t ELSE 10

\* a PTR record, found on the link with TTL 120, is served from the cache
\* with TTL 10
C1_CachedPtrServed ==
  /\ result.valid /\ result.ok /\ result.cached
  /\ make_key(Name_to_utf8(call.name), call.rtype) \in DOMAIN cache
  /\ \E i \in 1..Len(result.records) :
       result.records[i].rtype = RT_PTR /\ result.records[i].ttl = 10

\* C2: in every response the handler emits, administrative answers included,
\* no owner name and no name embedded in rdata ends in "local."; all of them
\* end in the discovery domain.
C2_NoLocalNameEmitted ==
  response.valid =>
    \A i \in 1..Len(response.answers) :
      \A n \in RecordNames(response.answers[i]) : ~EndsInLocal(n) /\ EndsInDiscovery(n)

\* the acceptance rule as stated: the name ends in the discovery domain, with
\* or without the trailing dot, or contains "._tcp." or "._udp."
AcceptedAsStated(name) ==
  \/ ends_with(name, to_lowercase(D))
  \/ ends_with(name, trim_end_dots(to_lowercase(D)))
  \/ contains(name, STR_dot_tcp_dot)
  \/ contains(name, STR_dot_udp_dot)

\* C3: a question is refused if and only if its name neither ends in the
\* discovery domain D nor contains "._tcp." or "._udp."; every name ending in
\* D, and D itself, is accepted.
C3_RefusedIffOutsideDomain ==
  Handled => ((trace.class = "Refuse") <=> ~AcceptedAsStated(QName))

\* C4 (as stated): a question classified Resolve is answered NOERROR whatever
\* the resolver returns.
C4_ResolveAlwaysNoError ==
  (Resolve /\ response.valid) => response.code = RC_NoError

\* C4: a question classified Resolve is answered NOERROR when the resolver
\* returns Ok, however many records it returns and however many remain after
\* suppression, and SERVFAIL when the resolver returns an error.
C4_ResolveCode ==
  (Resolve /\ response.valid) =>
    /\ result.valid
    /\ response.code = IF result.ok THEN RC_NoError ELSE RC_ServFail
    /\ ~result.ok => response.answers = <<>>

\* a Resolve question answered NOERROR with the records the resolver returned
C4_ResolveAnsweredWithRecords ==
  /\ Resolve /\ response.valid /\ result.valid /\ result.ok
  /\ response.code = RC_NoError
  /\ response.answers # <<>>

\* C5: a question the classifier refuses is answered NXDOMAIN with zero
\* records; handling it never calls the resolver and neither reads nor
\* writes the cache.
C5_RefusedIsNxdomain ==
  [][ (nreq' = nreq + 1 /\ call'.via = "handler" /\ ~call'.malformed
         /\ ~should_handle(call'.name))
      => /\ response'.valid
         /\ response'.code = RC_NXDomain
         /\ response'.answers = <<>>
         /\ trace'.resolver_calls = 0
         /\ trace'.cache_reads = 0
         /\ trace'.cache_writes = 0
         /\ trace'.browses = 0
         /\ cache' = cache
         /\ pc' = "idle" ]_vars

\* a refused question answered NXDOMAIN while the cache holds records
C5_RefusedWithCacheFilled ==
  /\ Answered /\ ~should_handle(call.name)
  /\ response.code = RC_NXDomain
  /\ DOMAIN cache # {}

\* C6: every record MdnsResolver::query returns for question name N is owned
\* by N (equal as DNS names); an SOA or NS question yields exactly one
\* record, owned by the queried name.
C6_OwnerIsQueryName ==
  (result.valid /\ result.ok) =>
    /\ \A i \in 1..Len(result.records) : Name_eq(result.records[i].name, call.name)
    /\ call.rtype \in {RT_SOA, RT_NS} => Len(result.records) = 1

\* C7: an SOA question for the discovery domain itself is answered NOERROR
\* with exactly one SOA record: owner the apex, TTL 10, mname
\* discovery-proxy.<D>, rname hostmaster.<D>, serial 0, refresh 7200, retry
\* 3600, expire 86400, minimum 10.
C7_ApexSoaAnswered ==
  (Answered /\ Name_eq(call.name, NameOf(D)) /\ call.rtype = RT_SOA) =>
    /\ response.code = RC_NoError
    /\ Len(response.answers) = 1
    /\ LET r == response.answers[1]
       IN /\ r.rtype = RT_SOA
          /\ Name_eq(r.name, NameOf(D))
          /\ r.ttl = 10
          /\ Name_eq(r.rdata.mname, NameOf(L_discovery_proxy \o Dot \o D))
          /\ Name_eq(r.rdata.rname, NameOf(L_hostmaster \o Dot \o D))
          /\ r.rdata.serial = 0
          /\ r.rdata.refresh = 7200
          /\ r.rdata.retry = 3600
          /\ r.rdata.expire = 86400
          /\ r.rdata.minimum = 10

\* the question name begins with b._dns-sd._udp, db._dns-sd._udp or
\* lb._dns-sd._udp
IsEnumerationName ==
  \E p \in {L_b, L_db, L_lb} : starts_with(QName, p \o Dot \o L_dns_sd \o Dot \o L_udp \o Dot)

\* C8: a PTR question for b|db|lb._dns-sd._udp.<...> is answered NOERROR with
\* exactly one PTR record, TTL 10, owned by the question name and pointing at
\* the discovery domain.
C8_EnumerationPointsAtDiscovery ==
  (Answered /\ IsEnumerationName /\ call.rtype = RT_PTR) =>
    /\ response.code = RC_NoError
    /\ Len(response.answers) = 1
    /\ LET r == response.answers[1]
       IN /\ r.rtype = RT_PTR
          /\ r.ttl = 10
          /\ Name_eq(r.name, call.name)
          /\ Name_eq(r.rdata.target, NameOf(D))

\* the question name begins with one of the seven administrative prefixes
IsAdminSrvName ==
  \E p \in { L_dns_update \o Dot \o L_udp, L_dns_update \o Dot \o L_tcp,
             L_dns_update_tls \o Dot \o L_tcp, L_dns_llq \o Dot \o L_udp,
             L_dns_llq \o Dot \o L_tcp, L_dns_llq_tls \o Dot \o L_tcp,
             L_dns_push_tls \o Dot \o L_tcp } : starts_with(QName, p \o Dot)

\* C9: an SRV question whose name begins with one of the seven
\* administrative prefixes is answered NOERROR with zero records, without
\* calling the resolver; the same name asked with another record type is not
\* answered by that administrative branch.
C9_AdminSrvNegative ==
  (Handled /\ IsAdminSrvName) =>
    IF call.rtype = RT_SRV
    THEN /\ response.valid
         /\ response.code = RC_NoError
         /\ response.answers = <<>>
         /\ trace.class = "Admin"
         /\ trace.kind = "NegativeSrv"
         /\ trace.resolver_calls = 0
    ELSE trace.kind \notin {"NegativeSrv", "AdminSrv"}

\* an administrative SRV question answered NOERROR with no record
C9_AdminSrvAnswered ==
  /\ Answered /\ IsAdminSrvName /\ call.rtype = RT_SRV
  /\ response.code = RC_NoError
  /\ response.answers = <<>>
  /\ trace.kind = "NegativeSrv"

\* the question name lies strictly below the zone apex
StrictlyBelowApex ==
  num_labels(call.name) > num_labels(zone_apex) /\ zone_of(zone_apex, call.name)

\* C10: an SOA, NS or DS question strictly below the zone apex is answered
\* NOERROR with zero records; a question at the apex itself, or of any other
\* record type, is never classified as delegation-below-apex.
C10_DelegationOnlySoaNsDs ==
  Handled =>
    /\ (trace.kind = "DelegationBelowApex") =>
         (call.rtype \in {RT_SOA, RT_NS, RT_DS} /\ StrictlyBelowApex)
    /\ (call.rtype \in {RT_SOA, RT_NS, RT_DS} /\ StrictlyBelowApex) =>
         (response.valid /\ response.code = RC_NoError /\ response.answers = <<>>)

C12_SendExactlyOnce ==
  call.via = "handler" =>
    /\ trace.class \in {"Malformed", "Refuse", "Admin", "Resolve"}
    /\ trace.sends = IF pc = "idle" THEN 1 ELSE 0
    /\ response.valid <=> (pc = "idle")
    /\ trace.send_errors = IF response.valid /\ ~response.delivered THEN 1 ELSE 0

\* a resolved request whose only send failed
C12_FailedSendNotRetried ==
  /\ call.via = "handler" /\ pc = "idle"
  /\ trace.class = "Resolve" /\ result.valid /\ result.records # <<>>
  /\ response.valid /\ ~response.delivered
  /\ trace.sends = 1 /\ trace.send_errors = 1

\* C13: when the request's question cannot be parsed the handler sends
\* FORMERR with zero records, and the classifier, the administrative
\* answerer, the resolver and the cache are not used for that request.
C13_MalformedIsFormErr ==
  [][ (nreq' = nreq + 1 /\ call'.via = "handler" /\ call'.malformed)
      => /\ response'.valid
         /\ response'.code = RC_FormErr
         /\ response'.answers = <<>>
         /\ trace'.class = "Malformed"
         /\ trace'.kind = "None"
         /\ trace'.resolver_calls = 0
         /\ trace'.cache_reads = 0
         /\ trace'.cache_writes = 0
         /\ trace'.browses = 0
         /\ trace'.sends = 1
         /\ result' = NoResult
         /\ cache' = cache
         /\ pc' = "idle" ]_vars

\* a malformed request answered FORMERR while the cache holds records
C13_MalformedWithCacheFilled ==
  /\ call.via = "handler" /\ call.malformed
  /\ response.valid /\ response.code = RC_FormErr /\ response.answers = <<>>
  /\ DOMAIN cache # {}

\* C14: a get made less than the TTL after the last insert under its
\* (name, type) returns exactly the list given to that insert, the empty list
\* included, in the same order; whatever a get returns is the list of the
\* last insert under its key, never an earlier one nor a mixture
C14_GetReturnsLastInserted ==
  tcache.got.valid =>
    LET g == tcache.got
    IN /\ (g.last.some /\ g.at - g.last.at < tcache.ttl) =>
            (g.answer.some /\ g.answer.records = g.last.records)
       /\ g.answer.some => (g.last.some /\ g.answer.records = g.last.records)

\* a get returns the empty list that replaced an earlier list under its key
C14_ReplacedByEmptyList ==
  /\ tcache.got.valid
  /\ tcache.got.answer.some
  /\ tcache.got.answer.records = <<>>
  /\ tcache.got.last.n >= 2

\* C15: a get misses when the entry under its key is at least TTL old, so a
\* returned list was inserted less than TTL before the get; with a TTL of
\* zero every get misses
C15_ExpiredEntryMisses ==
  tcache.got.valid =>
    LET g == tcache.got
    IN /\ (g.last.some /\ g.at - g.last.at >= tcache.ttl) => ~g.answer.some
       /\ g.answer.some => (g.last.some /\ g.at - g.last.at < tcache.ttl)
       /\ tcache.ttl = 0 => ~g.answer.some

\* a get misses an entry whose age is exactly the TTL
C15_MissAtExactlyTtl ==
  /\ tcache.got.valid
  /\ tcache.got.last.some
  /\ tcache.got.at - tcache.got.last.at = tcache.ttl
  /\ ~tcache.got.answer.some

\* C16: the cache is keyed by the question name in canonical lower case, so
\* that two questions differing only in the letter case of the name read
\* and write the same entry: the name in every cache key is its own
\* lower-case form
C16_KeysAreLowerCaseNames ==
  \A k \in DOMAIN cache :
    LET key_name == SubSeq(k, 1, Len(k) - 2)
    IN key_name = to_lowercase(key_name)

\* C17: MdnsResolver::query returns only A records for an A question and
\* only AAAA records for an AAAA question, whether the records were just
\* resolved or come from the cache
C17_OnlyQuestionFamily ==
  (result.valid /\ result.ok /\ call.rtype \in {RT_A, RT_AAAA}) =>
    \A i \in 1..Len(result.records) : result.records[i].rtype = call.rtype

\* an AAAA question is answered from the cache for a host that has
\* addresses of both families
C17_CachedAaaaOfDualHost ==
  /\ result.valid
  /\ result.ok
  /\ result.cached
  /\ call.rtype = RT_AAAA
  /\ result.records # <<>>
  /\ make_key(Name_to_utf8(call.name), RT_A) \in DOMAIN cache

\* C18: when an address resolution returns, each family of which it learnt
\* an address has a cache entry under (name, A) resp. (name, AAAA), stamped
\* with the instant of the return and holding only records of that family;
\* and a question put to MdnsResolver::query for which the cache holds an
\* entry younger than the cache TTL is answered with that entry at once,
\* without a browse
C18_BothFamiliesCached ==
  [][ /\ (pc = "resolve" /\ pc' = "idle") =>
           \A t \in {RT_A, RT_AAAA} :
             (\E i \in 1..Len(br.records) : br.records[i].rtype = t) =>
                LET k == make_key(Name_to_utf8(call.name), t)
                IN /\ result'.valid /\ result'.ok
                   /\ k \in DOMAIN cache'
                   /\ cache'[k].timestamp = now'
                   /\ cache'[k].records # <<>>
                   /\ \A i \in 1..Len(cache'[k].records) : cache'[k].records[i].rtype = t
                   /\ t = call.rtype => result'.records = cache'[k].records
      /\ (nreq' = nreq + 1 /\ trace'.resolver_calls = 1) =>
           LET k == make_key(Name_to_utf8(call'.name), call'.rtype)
           IN (k \in DOMAIN cache /\ now - cache[k].timestamp < cache_ttl) =>
                /\ pc' = "idle"
                /\ result'.valid /\ result'.ok /\ result'.cached
                /\ result'.records = cache[k].records
                /\ trace'.browses = 0
                /\ br' = NoBrowse
                /\ cache' = cache
    ]_vars

\* an AAAA question, put after time has passed, is answered without a browse
\* from the entry that an A resolution of the same name stored along with
\* its own
C18_AaaaServedFromAResolution ==
  LET ka == make_key(Name_to_utf8(call.name), RT_A)
      kaaaa == make_key(Name_to_utf8(call.name), RT_AAAA)
  IN /\ pc = "idle"
     /\ nreq = 2
     /\ call.rtype = RT_AAAA
     /\ result.valid /\ result.ok /\ result.cached
     /\ result.records # <<>>
     /\ trace.browses = 0
     /\ ka \in DOMAIN cache
     /\ kaaaa \in DOMAIN cache
     /\ cache[ka].timestamp = cache[kaaaa].timestamp
     /\ now > cache[kaaaa].timestamp

\* C19: while a thread is inside insert no other thread is inside get or
\* insert; and what a get reads is the map as the last returned insert left
\* it: each entry is the one from before a running insert or the complete
\* new one, never the map between the store and the prune
C19_ReaderWriterDiscipline ==
  /\ rw.writer # 0 => rw.readers = {}
  /\ \A t \in Threads :
       /\ rw.th[t].pc \in {"get", "got"} <=> t \in rw.readers
       /\ rw.th[t].pc \in {"insert", "stored"} <=> t = rw.writer
       /\ rw.th[t].pc = "get" => rw.data = rw.committed
       /\ rw.th[t].pc = "got" =>
            /\ rw.th[t].seen = rw.th[t].base
            /\ rw.data = rw.th[t].seen

\* two gets overlap, both reading an entry that an earlier insert stored
C19_TwoReadersOverlap ==
  \E t, u \in Threads :
    /\ t # u
    /\ rw.th[t].pc = "got"
    /\ rw.th[u].pc = "got"
    /\ rw.th[t].records # <<>>
    /\ rw.th[u].records = rw.th[t].records

\* C20: a PTR, SRV or TXT browse whose deadline lies within the modelled
\* time ends; it is never past its deadline by more than the wait in which
\* the deadline fell; and when it ends at the deadline check without the
\* daemon having delivered an event, the query returns Ok with no record
\* and a handler request is answered NOERROR with no answer
C20_BrowseTerminates ==
  /\ [][ (pc = "browse" /\ pc' = "idle" /\ deadline_passed(br, now) /\ br.events = 0) =>
           /\ now' = now
           /\ now - br.start <= service_query_timeout + service_poll_interval
           /\ result'.valid /\ result'.ok /\ result'.records = <<>>
           /\ call.via = "handler" =>
                /\ response'.valid
                /\ response'.code = RC_NoError
                /\ response'.answers = <<>>
                /\ trace'.sends = 1
     ]_vars
  /\ (pc = "browse" /\ br.start + service_query_timeout + service_poll_interval <= MaxTime)
       ~> (pc = "idle")

\* a PTR request was answered NOERROR with no answer after waiting through
\* the whole service_query_timeout
C20_SilentDaemonAnswered ==
  /\ call.via = "handler"
  /\ call.rtype \in {RT_PTR, RT_SRV, RT_TXT}
  /\ pc = "idle"
  /\ trace.browses = 1
  /\ trace.polls * service_poll_interval > service_query_timeout
  /\ result.valid /\ result.ok /\ result.records = <<>>
  /\ response.valid
  /\ response.code = RC_NoError
  /\ response.answers = <<>>

\* C21: the response to a client that is not on the link of an address
\* carries no A record with a 169.254/16 address and no AAAA record with an
\* fe80::/10 or fc00::/7 address; an A question of such a client for a host
\* of the discovery domain that has only a link-local address is answered
\* NOERROR with no record
C21_NoUnusableAddressForRemoteClient ==
  (call.via = "handler" /\ ~call.malformed /\ response.valid) =>
    /\ \A i \in 1..Len(response.answers) :
         LET r == response.answers[i]
         IN (r.rdata.kind \in {RT_A, RT_AAAA} /\ ~is_same_link(call.src, r.rdata.addr)) =>
              /\ r.rdata.kind = RT_A => ~is_ipv4_link_local(r.rdata.addr)
              /\ r.rdata.kind = RT_AAAA =>
                   ~(is_ipv6_link_local(r.rdata.addr) \/ is_ipv6_ula(r.rdata.addr))
    /\ (call.rtype = RT_A /\ call.name = NameOf(N_nas_D)
          /\ ~is_same_link(call.src, Addr_linklocal4)) =>
         (response.code = RC_NoError /\ response.answers = <<>>)

\* C22: in the Config that Config::load returns, every flag that was given
\* has overridden the value of the file or of the defaults (the discovery
\* domain in its normalized form), and every flag that was not given has
\* left that value in place
C22_FlagsOverride ==
  (unit.fn = "Config::load" /\ unit.done /\ unit.out.ok) =>
    LET a == unit.args
        c == unit.out.config
        b == load_base(a)
    IN /\ c.bind_address = override(a.bind_address, b.bind_address)
       /\ c.port = override(a.port, b.port)
       /\ c.ttl_seconds = override(a.cache_ttl, b.ttl_seconds)
       /\ c.enabled = IF a.no_cache THEN FALSE ELSE b.enabled
       /\ c.level = override(a.log_level, b.level)
       /\ c.service_query_timeout_ms =
            override(a.service_query_timeout, b.service_query_timeout_ms)
       /\ c.hostname_resolution_timeout_ms =
            override(a.hostname_resolution_timeout, b.hostname_resolution_timeout_ms)
       /\ c.discovery_domain =
            IF a.discovery_domain.some THEN normalize_domain(a.discovery_domain.val)
            ELSE b.discovery_domain
       /\ c.tcp_timeout = b.tcp_timeout
       /\ c.service_poll_interval_ms = b.service_poll_interval_ms

\* C23: in a server started with caching disabled (cache.enabled = FALSE),
\* nothing is ever stored in the cache and no result comes from the cache
C23_DisabledCacheUnused ==
  (unit.fn = "main" /\ ~unit.config.enabled) =>
    /\ DOMAIN cache = {}
    /\ ~(result.valid /\ result.cached)

\* C24: for every fully qualified name n whose last label is local, mapping
\* n to the discovery domain succeeds, mapping the result back succeeds, and
\* the name that comes back equals n (as names compare: label by label,
\* ignoring case)
C24_RoundTrip ==
  (/\ unit.fn = "round_trip"
   /\ unit.n.fqdn /\ zone_of(NameOf(STR_local), unit.n)) =>
     /\ unit.pc = "rewritten" => unit.mid.ok
     /\ unit.pc = "mapped" => (unit.out.ok /\ Name_eq(Unwrap(unit.out), unit.n))

\* C25: a request whose question the handler accepts and handle_admin_query
\* answers is answered within handle_request itself: the response is sent,
\* the resolver is not called, no browse is started, and the cache is
\* neither read nor written
C25_AdminWithoutResolver ==
  [][ (/\ nreq' = nreq + 1 /\ call'.via = "handler" /\ ~call'.malformed
       /\ should_handle(call'.name)
       /\ handle_admin_query(call'.name, call'.rtype).some)
      => /\ response'.valid
         /\ response'.code = RC_NoError
         /\ response'.answers = handle_admin_query(call'.name, call'.rtype).records
         /\ trace'.class = "Admin"
         /\ trace'.resolver_calls = 0
         /\ trace'.cache_reads = 0
         /\ trace'.cache_writes = 0
         /\ trace'.browses = 0
         /\ trace'.polls = 0
         /\ cache' = cache
         /\ br' = br
         /\ result' = NoResult
         /\ pc' = "idle" ]_vars

\* an administrative answer with records, given while the cache holds
\* records of an earlier resolution
C25_AdminAnsweredBesideFilledCache ==
  /\ call.via = "handler" /\ ~call.malformed
  /\ handle_admin_query(call.name, call.rtype).some
  /\ response.valid /\ response.answers # <<>>
  /\ trace.class = "Admin" /\ trace.resolver_calls = 0
  /\ DOMAIN cache # {}

\* C26: a request during whose lookup the mDNS layer reported a transport
\* error (daemon.browse failed, or recv_async failed while the browse was in
\* progress) is answered SERVFAIL with zero records
C26_TransportErrorIsServFail ==
  (call.via = "handler" /\ response.valid /\ trace.transport_errors > 0) =>
    (response.code = RC_ServFail /\ response.answers = <<>>)

\* C27: when the fullname of a ServiceResolved event and the name the SRV or
\* TXT routine compares against are equal after lower-casing both, the
\* event is taken as the match: the routine stops and returns the instance's
\* records (an SRV record for an SRV question)
C27_MatchIgnoresCase ==
  (/\ unit.fn = "match" /\ unit.pc = "event"
   /\ to_lowercase(unit.info.fullname) = to_lowercase(unit.b.service_name)) =>
     /\ unit.o.tag = "finish" /\ unit.o.ok
     /\ unit.rtype = RT_SRV =>
          (Len(unit.o.records) = 1 /\ unit.o.records[1].rdata.port = unit.info.port)

\* C28: an SRV or TXT question whose mapped name has fewer than four labels
\* is answered by the resolver with Ok and no record, at once and without a
\* browse having been started
C28_ShortNameNoBrowse ==
  (/\ call.via # "none" /\ ~call.malformed
   /\ call.rtype \in {RT_SRV, RT_TXT}
   /\ trace.resolver_calls = 1
   /\ map_query_to_local(call.name, discovery_domain).ok
   /\ num_labels(Unwrap(map_query_to_local(call.name, discovery_domain))) < 4) =>
     /\ pc = "idle"
     /\ result.valid /\ result.ok /\ result.records = <<>>
     /\ trace.browses = 0
     /\ trace.transport_errors = 0

\* C29: an A resolution is over once hostname_resolution_timeout has elapsed
\* since it began: at no moment of the resolution has more time passed than
\* that budget, the time spent discovering service types and one wait for
\* an event
C29_SingleOverallDeadline ==
  unit.fn = "resolve_hostname_to_ipv4" =>
    unit.clock - unit.began
      <= unit.discovery + hostname_resolution_timeout + hostname_poll_interval

C31_LazyEviction ==
  [][ /\ (tcache'.last # tcache.last) =>
           /\ \A k \in DOMAIN tcache'.data :
                tcache'.clock - tcache'.data[k].timestamp < tcache'.ttl
           /\ \A k \in DOMAIN tcache.data :
                (tcache.clock - tcache.data[k].timestamp < tcache.ttl) =>
                  /\ k \in DOMAIN tcache'.data
                  /\ tcache'.data[k].timestamp # tcache'.clock =>
                       tcache'.data[k] = tcache.data[k]
      /\ (tcache'.last = tcache.last /\ tcache.ops >= 1) => tcache'.data = tcache.data ]_vars

\* a get missed on an entry that is expired and still stored
C31_ExpiredEntryStillStored ==
  /\ tcache.got.valid /\ ~tcache.got.answer.some
  /\ tcache.got.at = tcache.clock
  /\ make_key(tcache.got.key[1], tcache.got.key[2]) \in DOMAIN tcache.data
  /\ tcache.ttl > 0
  /\ Cardinality(DOMAIN tcache.data) >= 2

\* C32: of two tasks querying the same question, each one that missed the
\* cache started a browse of its own, each one that returned records after
\* a miss inserted them, and once both have returned after a miss the cache
\* holds no other key than the question's, with the records of the last
\* insert under it
C32_UncoordinatedLastInsertWins ==
  unit.fn = "concurrent" =>
    LET key == make_key(Name_to_utf8(NameOf(unit.q[1])), unit.q[2])
        missed == {t \in Tasks : unit.task[t].missed}
        stored == {t \in missed : unit.task[t].pc = "done" /\ unit.task[t].ok
                                  /\ unit.task[t].records # <<>>}
    IN /\ unit.browses = Cardinality(missed)
       /\ unit.inserts = Cardinality(stored)
       /\ DOMAIN unit.data \subseteq {key}
       /\ (missed = Tasks /\ \A t \in Tasks : unit.task[t].pc = "done") =>
            /\ stored # {} => (key \in DOMAIN unit.data /\ unit.data[key].records = unit.last)
            /\ stored = {} => unit.data = cache

\* both tasks missed, browsed and returned different record lists; the cache
\* holds the list of the one that returned last
C32_TwoBrowsesTwoInserts ==
  /\ unit.fn = "concurrent"
  /\ \A t \in Tasks : unit.task[t].pc = "done" /\ unit.task[t].missed
  /\ unit.browses = 2 /\ unit.inserts = 2
  /\ unit.task[1].records # unit.task[2].records
  /\ unit.task[1].at < unit.task[2].at
  /\ unit.data[make_key(Name_to_utf8(NameOf(unit.q[1])), unit.q[2])].records
       = unit.task[2].records

\* an event that resolves the instance the question names
IsMatch(ev) == ev.type = "ServiceResolved" /\ ev.info.fullname = unit.b.service_name

\* C33: an SRV or TXT browse holds no record while it still consumes
\* events and consumed no matching ServiceResolved event before its last
\* one; when its last event matched, SRV returned exactly the record
\* (priority 0, weight 0, the event's port, the event's hostname) and TXT the
\* one record of the event's key=value strings, or none when the instance
\* has no properties; otherwise it returned no record
C33_StopsAtFirstMatch ==
  (unit.fn = "loop" /\ unit.q[2] \in {RT_SRV, RT_TXT} /\ unit.pc # "new") =>
    LET n == Len(unit.evs)
        owner == NameOf(unit.b.service_name)
    IN /\ \A i \in 1..(n - 1) : ~IsMatch(unit.evs[i])
       /\ unit.pc = "browse" =>
            unit.b.records = <<>> /\ (n > 0 => ~IsMatch(unit.evs[n]))
       /\ unit.pc = "done" =>
            /\ unit.o.ok /\ Len(unit.o.records) <= 1
            /\ IF n > 0 /\ IsMatch(unit.evs[n]) /\ unit.ended_by = "event"
               THEN LET info == unit.evs[n].info
                    IN IF unit.q[2] = RT_SRV
                       THEN unit.o.records =
                              << [name |-> owner, ttl |-> 120, rtype |-> RT_SRV,
                                  rdata |-> [kind |-> RT_SRV, priority |-> 0, weight |-> 0,
                                             port |-> info.port,
                                             target |-> NameOf(info.hostname)]] >>
                       ELSE IF info.properties = <<>> THEN unit.o.records = <<>>
                       ELSE unit.o.records =
                              << [name |-> owner, ttl |-> 120, rtype |-> RT_TXT,
                                  rdata |-> [kind |-> RT_TXT,
                                             txt |-> [i \in 1..Len(info.properties) |->
                                                        info.properties[i].key \o <<"=">>
                                                          \o info.properties[i].val]]] >>
               ELSE unit.o.records = <<>>

\* an SRV browse that passed over another instance of the type and ended
\* with one record at the matching event
C33_SrvEndedAtMatch ==
  /\ unit.fn = "loop" /\ unit.q[2] = RT_SRV /\ unit.pc = "done"
  /\ Len(unit.evs) = 2
  /\ unit.evs[1].type = "ServiceResolved" /\ ~IsMatch(unit.evs[1])
  /\ IsMatch(unit.evs[2])
  /\ Len(unit.o.records) = 1

\* the records a PTR browse holds: those collected so far, or those returned
LoopRecords == IF unit.pc = "done" THEN unit.o.records ELSE unit.b.records

\* the name of the labels of s as they are, spaces included
RawName(s) == [labels |-> SubSeq(split(s), 1, Len(split(s)) - 1), fqdn |-> TRUE]

\* C34: a PTR browse holds one PTR record (owner the service type, target
\* the instance fullname, TTL 120) per ServiceResolved event it received, in
\* arrival order; it ends at once on SearchStopped and on a receive error,
\* and otherwise only when the overall deadline has passed
C34_OnePtrPerResolved ==
  (unit.fn = "loop" /\ unit.q[2] = RT_PTR /\ unit.pc # "new") =>
    LET resolved == SelectSeq(unit.evs, LAMBDA ev : ev.type = "ServiceResolved")
        n == Len(unit.evs)
    IN /\ LoopRecords =
            [i \in 1..Len(resolved) |->
               [name |-> RawName(unit.b.service_type), ttl |-> 120, rtype |-> RT_PTR,
                rdata |-> [kind |-> RT_PTR, target |-> RawName(resolved[i].info.fullname)]]]
       /\ \A i \in 1..(n - 1) : unit.evs[i].type # "SearchStopped"
       /\ unit.pc = "browse" => (n > 0 => unit.evs[n].type # "SearchStopped")
       /\ unit.pc = "done" =>
            /\ unit.o.ok
            /\ unit.ended_by = "event" => unit.evs[n].type = "SearchStopped"
            /\ unit.ended_by = "deadline" => deadline_passed(unit.b, unit.clock)

\* C34 for the instances whose fullname holds no space
C34_OnePtrPerParsedResolved ==
  (\A i \in 1..Len(unit.evs) :
     unit.evs[i].type = "ServiceResolved" => Name_from_utf8(unit.evs[i].info.fullname).ok)
    => C34_OnePtrPerResolved

\* an address record of a range that is of no use off the link, for a
\* client that is not on the link
WithheldAddress(r, client) ==
  /\ \/ r.rtype = RT_A /\ r.rdata.addr.o[1] = 169 /\ r.rdata.addr.o[2] = 254
     \/ r.rtype = RT_AAAA /\ r.rdata.addr.o[1] = 254 /\ r.rdata.addr.o[2] \in 128..191
     \/ r.rtype = RT_AAAA /\ r.rdata.addr.o[1] \in {252, 253}
  /\ ~is_same_link(client, r.rdata.addr)

\* a record the filter withholds from the client: such an address record,
\* or an SRV record whose target owns one in the same list
Withheld(r, records, client) ==
  \/ r.rtype \in {RT_A, RT_AAAA} /\ WithheldAddress(r, client)
  \/ /\ r.rtype = RT_SRV
     /\ \E j \in 1..Len(records) :
          /\ records[j].rtype \in {RT_A, RT_AAAA}
          /\ Name_eq(records[j].name, r.rdata.target)
          /\ WithheldAddress(records[j], client)

\* C35: with suppression enabled and the client known, the filter returns
\* the records that are not withheld, in their order; with suppression
\* disabled or the client unknown it returns the list as it is
C35_FilterDropsExactlyUnusable ==
  (unit.fn = "filter" /\ unit.pc = "out") =>
    IF unit.config.enabled /\ unit.config.client_ip # NoClient
    THEN unit.out = SelectSeq(unit.records,
                              LAMBDA r : ~Withheld(r, unit.records, unit.config.client_ip))
    ELSE unit.out = unit.records

\* a remote client asked: of an SRV record, the link-local address of its
\* target and a routable address, only the last one is left
C35_SrvDroppedWithItsTarget ==
  /\ unit.fn = "filter" /\ unit.pc = "out"
  /\ unit.config.enabled /\ unit.config.client_ip = Client_remote
  /\ Len(unit.records) = 3 /\ Len(unit.out) = 1
  /\ unit.records[1].rtype = RT_SRV
  /\ unit.records[2].rtype = RT_A
  /\ unit.out[1] = unit.records[3]

\* C36: every response the handler sends carries the message id of the
\* request it answers and is marked as a response, the FORMERR response to
\* a malformed request included
C36_HeaderFromRequest ==
  (call.via = "handler" /\ response.valid) =>
    (response.id = call.id /\ response.qr = "Response")

\* C36 for the requests the transport could read
C36_HeaderFromReadableRequest ==
  (call.via = "handler" /\ response.valid /\ ~call.malformed) =>
    (response.id = call.id /\ response.qr = "Response")

\* C37: a name that is neither the discovery domain nor below it is left
\* as it is by map_query_to_local; a name that is neither local. nor below
\* it is left as it is by rewrite_name_to_discovery; the discovery domain
\* itself is mapped to local.
C37_LabelBoundary ==
  (unit.fn = "boundary" /\ unit.pc = "out") =>
    /\ ~zone_of(NameOf(unit.dd), unit.n) =>
         (unit.mapped.ok /\ Name_eq(Unwrap(unit.mapped), unit.n))
    /\ ~zone_of(NameOf(STR_local), unit.n) =>
         (unit.rewritten.ok /\ Unwrap(unit.rewritten) = unit.n)
    /\ Name_eq(unit.n, NameOf(unit.dd)) =>
         (unit.mapped.ok /\ Unwrap(unit.mapped) = NameOf(STR_local))

\* C37 for the names strictly below the suffix: the labels before the
\* discovery domain are kept (lower-cased) and local. put after them, the
\* labels before local. are kept and the discovery domain put after them
C37_BelowTheSuffix ==
  (unit.fn = "boundary" /\ unit.pc = "out") =>
    /\ (zone_of(NameOf(unit.dd), unit.n)
          /\ Len(unit.n.labels) > Len(NameOf(unit.dd).labels)) =>
         /\ unit.mapped.ok
         /\ Name_eq(Unwrap(unit.mapped),
                    [labels |-> SubSeq(unit.n.labels, 1,
                                       Len(unit.n.labels) - Len(NameOf(unit.dd).labels))
                                  \o <<L_local>>,
                     fqdn |-> TRUE])
    /\ (zone_of(NameOf(STR_local), unit.n) /\ Len(unit.n.labels) > 1) =>
         /\ unit.rewritten.ok
         /\ Unwrap(unit.rewritten) =
              [labels |-> SubSeq(unit.n.labels, 1, Len(unit.n.labels) - 1)
                            \o NameOf(unit.dd).labels,
               fqdn |-> TRUE]

\* the filter as it would be for a request of this client
ForClient(client) == [enabled |-> TRUE, client_ip |-> client]

\* C38: the cache holds the records as resolver.query returned them,
\* whoever asked; the first client is answered with those records filtered
\* for the first client, and the second client, answered from the cache,
\* with the same records filtered for the second client
C38_SuppressionPerClient ==
  (unit.fn = "clients" /\ unit.pc = "done" /\ unit.hit) =>
    /\ unit.data[make_key(Name_to_utf8(unit.name), unit.rtype)].records = unit.returned
    /\ unit.ans1 = filter_suppressed_records(unit.returned, ForClient(unit.c1))
    /\ unit.ans2 = filter_suppressed_records(unit.returned, ForClient(unit.c2))

\* C38, the half about the cache: it holds the records unfiltered, and the
\* second client is answered with all of them
C38_CacheHoldsUnfiltered ==
  (unit.fn = "clients" /\ unit.pc = "done" /\ unit.hit) =>
    /\ unit.data[make_key(Name_to_utf8(unit.name), unit.rtype)].records = unit.returned
    /\ unit.ans2 = unit.returned

\* no client is ever answered with fewer records than the resolver returned
C38_NothingWithheld ==
  (unit.fn = "clients" /\ unit.pc # "first") =>
    (unit.ans1 = unit.returned /\ (unit.pc = "done" => unit.ans2 = IF unit.hit THEN unit.returned ELSE <<>>))

\* 127/8 and ::1
LoopbackClient(c) ==
  \/ c.v = 4 /\ c.o[1] = 127
  \/ c.v = 6 /\ c.o = [i \in 1..16 |-> IF i = 16 THEN 1 ELSE 0]

\* C39: with suppression enabled and the client known, an A record with a
\* 169.254/16 address or an AAAA record with an fc00::/7 address is in the
\* output only for a loopback client, and an AAAA record with an fe80::/10
\* address only for a loopback client or a client whose own address is in
\* fe80::/10
C39_SameLinkHeuristic ==
  (/\ unit.fn = "filter" /\ unit.pc = "out"
   /\ unit.config.enabled /\ unit.config.client_ip # NoClient) =>
    \A i \in 1..Len(unit.out) :
      LET r == unit.out[i]
          c == unit.config.client_ip
      IN /\ (r.rtype = RT_A /\ r.rdata.addr.o[1] = 169 /\ r.rdata.addr.o[2] = 254) =>
              LoopbackClient(c)
         /\ (r.rtype = RT_AAAA /\ r.rdata.addr.o[1] \in {252, 253}) => LoopbackClient(c)
         /\ (r.rtype = RT_AAAA /\ r.rdata.addr.o[1] = 254 /\ r.rdata.addr.o[2] \in 128..191) =>
              \/ LoopbackClient(c)
              \/ c.v = 6 /\ c.o[1] = 254 /\ c.o[2] \in 128..191

\* a client with an fe80::/10 address asked: the fe80::/10 record is left,
\* the 169.254/16 record and the ULA record are not
C39_LinkLocalClientKeepsLinkLocal6 ==
  /\ unit.fn = "filter" /\ unit.pc = "out"
  /\ unit.config.enabled /\ unit.config.client_ip = Client_linklocal6
  /\ Len(unit.records) = 3
  /\ unit.records[1].rdata = RData_A(Addr_linklocal4)
  /\ unit.records[2].rdata = RData_AAAA(Addr_linklocal6)
  /\ unit.records[3].rdata = RData_AAAA(Addr_ula)
  /\ unit.out = <<unit.records[2]>>

\* the record type a cache key was made with
KeyType(k) == k[Len(k)]

\* C40: every record of every cache entry has the record type its key was
\* made with
C40_CachedTypeIsKeyType ==
  \A k \in DOMAIN cache :
    \A i \in 1..Len(cache[k].records) : cache[k].records[i].rtype = KeyType(k)

\* one address question filled two entries, one per family, and an entry of
\* another type is stored beside them
C40_BothFamiliesCached ==
  /\ \E k \in DOMAIN cache : KeyType(k) = RT_A /\ cache[k].records # <<>>
  /\ \E k \in DOMAIN cache : KeyType(k) = RT_AAAA /\ cache[k].records # <<>>
  /\ trace.cache_writes = 2

====
